---- MODULE Spec2Model ----
(***************************************************************************)
(* A model of code-impact-analyzer: the code index (code_index.rs), the    *)
(* impact tracer (impact_tracer.rs), the persistent index store            *)
(* (index_storage.rs), the shared parse cache (parse_cache.rs) and the run *)
(* of one analysis (lib.rs, orchestrator.rs).                              *)
(*                                                                         *)
(* A qualified name "a::b::m" is the sequence of its "::"-separated        *)
(* segments, <<"a", "b", "m">>: rfind("::") splits off the last segment    *)
(* and format!("{}::{}", c, m) appends one.  A HashMap is a function with  *)
(* a finite domain, a Vec a sequence.                                      *)
(***************************************************************************)
EXTENDS Integers, Sequences, FiniteSets, TLC

VARIABLES
    idx,        \* SpecIndex: the CodeIndex under construction
    idxPrev,    \* SpecIndex: the CodeIndex before the last indexing operation
    log,        \* SpecIndex: the indexing operations applied so far
    tindex,     \* SpecTrace: ImpactTracer.index, immutable during the trace
    config,     \* SpecTrace: ImpactTracer.config
    changed_methods, \* SpecTrace: the argument of trace_impact
    graph,      \* SpecTrace: the ImpactGraph being built
    stack,      \* SpecTrace: the call stack of trace_method_* activations
    vsets,      \* SpecTrace: the live visited sets, the newest last
    tpc,        \* SpecTrace: the position of trace_impact in its loop body
    seed,       \* SpecTrace: the position of trace_impact in changed_methods
    entered,    \* SpecTrace: how often each method was entered, per direction
    files,      \* SpecStore: the mtime, in ticks, of every file of the workspace
    mem,        \* SpecStore: the CodeIndex in memory
    disk_meta,  \* SpecStore: index.meta.json
    disk_data,  \* SpecStore: index.json
    pending,    \* SpecStore: the SerializableIndex of a running save_index
    spc,        \* SpecStore: the position of save_index
    loaded,     \* SpecStore: the last load_index: its result and what it read
    ghost,      \* SpecStore: which save_index wrote each file, and from what
    budget,     \* SpecStore: the runs and the workspace changes so far
    requests,   \* SpecCache: the paths still to be handed to a worker
    worker,     \* SpecCache: each worker's position in parse_file_with_cache
    mutex,      \* SpecCache: the holder of the cache's Mutex, 0 when free
    cache,      \* SpecCache: ParseCache.cache
    parse_log,  \* SpecCache: the outcome of every parse_fn call, in order
    args,       \* SpecRun: the arguments of run and what they point to
    rpc,        \* SpecRun: the position of run and of analyze
    remaining,  \* SpecRun: the files the current loop has still to take
    warnings,   \* SpecRun: AnalysisOrchestrator.warnings
    errors,     \* SpecRun: AnalysisOrchestrator.errors
    file_changes, \* SpecRun: the length of the Vec<FileChange> of the patches
    emitted,    \* SpecRun: what was written to the log, stderr and stdout
    occurred,   \* SpecRun: the failures met so far, in order
    analysis,   \* SpecRun: the AnalysisResult of analyze
    ecm_file_changes,     \* SpecExtract: the file_changes argument
    ecm_code_index,       \* SpecExtract: code_index.methods()
    ecm_files,            \* SpecExtract: the state of each file on disk
    ecm_todo,             \* SpecExtract: the file changes still to be looped over
    ecm_pc,               \* SpecExtract: the position of extract_changed_methods
    ecm_changed_methods,  \* SpecExtract: the Vec changed_methods
    ecm_warnings          \* SpecExtract: the warnings pushed by the call

indexVars == <<idx, idxPrev, log>>

traceVars ==
    <<tindex, config, changed_methods, graph, stack, vsets, tpc, seed, entered>>

storeVars ==
    <<files, mem, disk_meta, disk_data, pending, spc, loaded, ghost, budget>>

cacheVars == <<requests, worker, mutex, cache, parse_log>>

runVars ==
    <<args, rpc, remaining, warnings, errors, file_changes, emitted, occurred,
      analysis>>

extractVars ==
    <<ecm_file_changes, ecm_code_index, ecm_files, ecm_todo, ecm_pc,
      ecm_changed_methods, ecm_warnings>>

vars == <<indexVars, traceVars, storeVars, cacheVars, runVars, extractVars>>

-----------------------------------------------------------------------------
(* Bounds of the model.                                                    *)

\* indexing operations applied to one index
MaxOps == 3

\* the largest max_depth of a TraceConfig
MaxDepth == 2

-----------------------------------------------------------------------------
(* Maps and sequences.                                                     *)

Range(s) == {s[i] : i \in DOMAIN s}

EmptyMap == [k \in {} |-> <<>>]

\* map.get(k).map(|v| v.iter().collect()).unwrap_or_default()
Get(map, k) == IF k \in DOMAIN map THEN map[k] ELSE <<>>

\* map.entry(k).or_insert_with(Vec::new).push(v)
PushEntry(map, k, v) ==
    [x \in DOMAIN map \cup {k} |->
        IF x = k THEN Append(Get(map, k), v) ELSE map[x]]

\* map.insert(k, v): the last writer wins
Insert(map, k, v) ==
    [x \in DOMAIN map \cup {k} |-> IF x = k THEN v ELSE map[x]]

\* the number of occurrences of v in the sequence s
Count(s, v) == Cardinality({i \in DOMAIN s : s[i] = v})

-----------------------------------------------------------------------------
(* Qualified names.                                                        *)

\* method_call_target.rfind("::") finds a separator
HasSeparator(qn) == Len(qn) >= 2

\* &target[..pos]
ClassOf(qn) == SubSeq(qn, 1, Len(qn) - 1)

\* &target[pos + 2..]
MethodOf(qn) == qn[Len(qn)]

\* format!("{}::{}", class_name, method_name)
Qualify(class_name, method_name) == Append(class_name, method_name)

-----------------------------------------------------------------------------
(* The code index: code_index.rs.                                          *)

NoHttp == [none |-> TRUE]

\* CodeIndex::new
NewCodeIndex ==
    [methods                   |-> EmptyMap,
     method_calls              |-> EmptyMap,
     reverse_calls             |-> EmptyMap,
     http_providers            |-> EmptyMap,
     http_consumers            |-> EmptyMap,
     kafka_producers           |-> EmptyMap,
     kafka_consumers           |-> EmptyMap,
     db_writers                |-> EmptyMap,
     db_readers                |-> EmptyMap,
     redis_writers             |-> EmptyMap,
     redis_readers             |-> EmptyMap,
     config_associations       |-> EmptyMap,
     interface_implementations |-> EmptyMap,
     class_interfaces          |-> EmptyMap]

\* index_method without the reverse map: a mutant of IndexCalls
RECURSIVE IndexCallsForwardOnly(_, _, _)
IndexCallsForwardOnly(ci, qualified_name, calls) ==
    IF calls = <<>> THEN ci
    ELSE IndexCallsForwardOnly(
            [ci EXCEPT
                !.method_calls = PushEntry(@, qualified_name, Head(calls))],
            qualified_name, Tail(calls))

\* the loop over method.calls in index_method: one push to each of the maps
RECURSIVE IndexCalls(_, _, _)
IndexCalls(ci, qualified_name, calls) ==
    IF calls = <<>> THEN ci
    ELSE IndexCalls(
            [ci EXCEPT
                !.method_calls  = PushEntry(@, qualified_name, Head(calls)),
                !.reverse_calls = PushEntry(@, Head(calls), qualified_name)],
            qualified_name, Tail(calls))

\* HttpEndpoint { method, path_pattern }
Endpoint(annotation) ==
    [method |-> annotation.method, path_pattern |-> annotation.path]

\* CodeIndex::index_http_annotation
IndexHttpAnnotation(ci, method_name, annotation) ==
    IF annotation.is_feign_client
    THEN [ci EXCEPT !.http_consumers =
                        PushEntry(@, Endpoint(annotation), method_name)]
    ELSE [ci EXCEPT !.http_providers =
                        Insert(@, Endpoint(annotation), method_name)]

\* CodeIndex::index_kafka_operation
IndexKafkaOperation(ci, method_name, operation) ==
    IF operation.operation_type = "Produce"
    THEN [ci EXCEPT !.kafka_producers =
                        PushEntry(@, operation.topic, method_name)]
    ELSE [ci EXCEPT !.kafka_consumers =
                        PushEntry(@, operation.topic, method_name)]

\* CodeIndex::index_db_operation
IndexDbOperation(ci, method_name, operation) ==
    IF operation.operation_type = "Select"
    THEN [ci EXCEPT !.db_readers =
                        PushEntry(@, operation.table, method_name)]
    ELSE [ci EXCEPT !.db_writers =
                        PushEntry(@, operation.table, method_name)]

\* CodeIndex::index_redis_operation
IndexRedisOperation(ci, method_name, operation) ==
    IF operation.operation_type = "Get"
    THEN [ci EXCEPT !.redis_readers =
                        PushEntry(@, operation.key_pattern, method_name)]
    ELSE [ci EXCEPT !.redis_writers =
                        PushEntry(@, operation.key_pattern, method_name)]

RECURSIVE IndexKafkaOps(_, _, _)
IndexKafkaOps(ci, method_name, ops) ==
    IF ops = <<>> THEN ci
    ELSE IndexKafkaOps(IndexKafkaOperation(ci, method_name, Head(ops)),
                       method_name, Tail(ops))

RECURSIVE IndexDbOps(_, _, _)
IndexDbOps(ci, method_name, ops) ==
    IF ops = <<>> THEN ci
    ELSE IndexDbOps(IndexDbOperation(ci, method_name, Head(ops)),
                    method_name, Tail(ops))

RECURSIVE IndexRedisOps(_, _, _)
IndexRedisOps(ci, method_name, ops) ==
    IF ops = <<>> THEN ci
    ELSE IndexRedisOps(IndexRedisOperation(ci, method_name, Head(ops)),
                       method_name, Tail(ops))

\* CodeIndex::index_method
IndexMethod(ci, method) ==
    LET qualified_name == method.full_qualified_name
        c1 == [ci EXCEPT !.methods = Insert(@, qualified_name, method)]
        c2 == IndexCalls(c1, qualified_name, method.calls)
        c3 == IF method.http_annotations = NoHttp THEN c2
              ELSE IndexHttpAnnotation(c2, qualified_name,
                                       method.http_annotations)
        c4 == IndexKafkaOps(c3, qualified_name, method.kafka_operations)
        c5 == IndexDbOps(c4, qualified_name, method.db_operations)
    IN  IndexRedisOps(c5, qualified_name, method.redis_operations)

RECURSIVE IndexMethods(_, _)
IndexMethods(ci, methods) ==
    IF methods = <<>> THEN ci
    ELSE IndexMethods(IndexMethod(ci, Head(methods)), Tail(methods))

\* the loop over class.implements in index_parsed_file
RECURSIVE IndexImplements(_, _, _)
IndexImplements(ci, class_name, implements) ==
    IF implements = <<>> THEN ci
    ELSE IndexImplements(
            [ci EXCEPT !.interface_implementations =
                           PushEntry(@, Head(implements), class_name)],
            class_name, Tail(implements))

\* an index that keeps no class_interfaces relation
KeepClassInterfaces(ci, class_name, implements) == ci

\* the class_interfaces relation of the data model: every interface a class
\* implements, in the order of its implements clause
RECURSIVE IndexClassInterfaces(_, _, _)
IndexClassInterfaces(ci, class_name, implements) ==
    IF implements = <<>> THEN ci
    ELSE IndexClassInterfaces(
            [ci EXCEPT !.class_interfaces =
                           PushEntry(@, class_name, Head(implements))],
            class_name, Tail(implements))

\* the loop over parsed_file.classes in index_parsed_file
RECURSIVE IndexClasses(_, _)
IndexClasses(ci, classes) ==
    IF classes = <<>> THEN ci
    ELSE LET class == Head(classes)
             c1 == IndexImplements(ci, class.name, class.implements)
             c2 == IndexClassInterfaces(c1, class.name, class.implements)
         IN  IndexClasses(IndexMethods(c2, class.methods), Tail(classes))

\* CodeIndex::index_parsed_file (index_function is index_method on the
\* function's fields)
IndexParsedFile(ci, parsed_file) ==
    IndexMethods(IndexClasses(ci, parsed_file.classes), parsed_file.functions)

\* CodeIndex::find_method: NoMethod stands for None
NoMethod == [none |-> TRUE]
find_method(ci, qualified_name) ==
    IF qualified_name \in DOMAIN ci.methods
    THEN ci.methods[qualified_name] ELSE NoMethod

find_callers(ci, method) == Get(ci.reverse_calls, method)
find_callees(ci, method) == Get(ci.method_calls, method)

\* the provider of an endpoint, as a sequence of at most one name
find_http_providers(ci, endpoint) ==
    IF endpoint \in DOMAIN ci.http_providers
    THEN <<ci.http_providers[endpoint]>> ELSE <<>>

find_http_consumers(ci, endpoint) == Get(ci.http_consumers, endpoint)
find_kafka_consumers(ci, topic) == Get(ci.kafka_consumers, topic)
find_kafka_producers(ci, topic) == Get(ci.kafka_producers, topic)
find_db_readers(ci, table) == Get(ci.db_readers, table)
find_db_writers(ci, table) == Get(ci.db_writers, table)
find_redis_readers(ci, prefix) == Get(ci.redis_readers, prefix)
find_redis_writers(ci, prefix) == Get(ci.redis_writers, prefix)
find_config_associations(ci, config_key) ==
    Get(ci.config_associations, config_key)
find_interface_implementations(ci, interface_name) ==
    Get(ci.interface_implementations, interface_name)
find_class_interfaces(ci, class_name) == Get(ci.class_interfaces, class_name)

\* CodeIndex::resolve_interface_call
resolve_interface_call(ci, method_call_target) ==
    IF HasSeparator(method_call_target)
    THEN LET implementations ==
                 find_interface_implementations(ci,
                                                ClassOf(method_call_target))
         IN  IF Len(implementations) = 1
             THEN Qualify(implementations[1], MethodOf(method_call_target))
             ELSE method_call_target
    ELSE method_call_target

-----------------------------------------------------------------------------
(* The inputs of the index model: a small workspace of one interface I,    *)
(* its implementations C and D, and a caller X.                            *)

QN(class_name, method_name) == <<class_name, method_name>>

MethodRecord(qn, calls, http, kafka, db, redis) ==
    [name                |-> MethodOf(qn),
     full_qualified_name |-> qn,
     file_path           |-> qn[1],
     line_range          |-> <<1, 2>>,
     calls               |-> calls,
     http_annotations    |-> http,
     kafka_operations    |-> kafka,
     db_operations       |-> db,
     redis_operations    |-> redis]

Plain(qn, calls) == MethodRecord(qn, calls, NoHttp, <<>>, <<>>, <<>>)

KafkaOp(type, topic) == [operation_type |-> type, topic |-> topic]
DbOp(type, table) == [operation_type |-> type, table |-> table]
RedisOp(type, key) == [operation_type |-> type, key_pattern |-> key]
HttpAnn(verb, path, client) ==
    [method |-> verb, path |-> path, is_feign_client |-> client]

IndexedMethods ==
    { Plain(QN("C", "m"), <<>>),
      Plain(QN("X", "x"), <<QN("I", "m")>>),
      Plain(QN("X", "x"), <<QN("C", "m"), QN("C", "m")>>),
      MethodRecord(QN("C", "m"), <<QN("X", "x")>>, NoHttp,
                   <<KafkaOp("Produce", "T")>>, <<DbOp("Select", "t")>>,
                   <<RedisOp("Set", "k")>>),
      MethodRecord(QN("D", "m"), <<>>, HttpAnn("GET", "/u", FALSE),
                   <<KafkaOp("Consume", "T")>>, <<DbOp("Insert", "t")>>,
                   <<RedisOp("Get", "k")>>),
      MethodRecord(QN("X", "x"), <<>>, HttpAnn("GET", "/u", TRUE),
                   <<>>, <<>>, <<>>) }

ClassRecord(name, is_interface, implements, methods) ==
    [name |-> name, is_interface |-> is_interface,
     implements |-> implements, methods |-> methods]

\* the method as declared in the file at path
InFile(method, path) == [method EXCEPT !.file_path = path]

FileRecord(path, classes, functions) ==
    [file_path |-> path, classes |-> classes, functions |-> functions]

\* class C, which implements I, is declared in two service projects
ParsedFiles ==
    { FileRecord("svc1/I.java",
                 <<ClassRecord(<<"I">>, TRUE, <<>>,
                     <<InFile(Plain(QN("I", "m"), <<>>), "svc1/I.java")>>)>>,
                 <<>>),
      FileRecord("svc1/C.java",
                 <<ClassRecord(<<"C">>, FALSE, <<<<"I">>>>,
                     <<InFile(Plain(QN("C", "m"), <<>>), "svc1/C.java")>>)>>,
                 <<>>),
      FileRecord("svc2/C.java",
                 <<ClassRecord(<<"C">>, FALSE, <<<<"I">>>>,
                     <<InFile(Plain(QN("C", "m"), <<>>), "svc2/C.java")>>)>>,
                 <<>>),
      FileRecord("svc2/D.java",
                 <<ClassRecord(<<"D">>, FALSE, <<<<"I">>>>,
                     <<InFile(Plain(QN("D", "m"), <<>>), "svc2/D.java")>>)>>,
                 <<>>),
      FileRecord("svc3/f.rs", <<>>,
                 <<InFile(Plain(<<"f">>, <<QN("I", "m")>>), "svc3/f.rs")>>) }

\* every name the index model can hold
Names ==
    {QN("I", "m"), QN("C", "m"), QN("D", "m"), QN("X", "x"), <<"f">>}

ClassNames == {<<"I">>, <<"C">>, <<"D">>, <<"X">>}
Topics == {"T"}
Tables == {"t"}
Keys == {"k"}
Endpoints == {[method |-> "GET", path_pattern |-> "/u"]}

-----------------------------------------------------------------------------
(* The impact graph: impact_tracer.rs.  A node id "method:<qn>",           *)
(* "kafka:<topic>", ... is the record of its kind and its name.            *)

MethodId(qn) == [kind |-> "method", name |-> qn]
HttpId(verb, path) == [kind |-> "http", name |-> <<verb, path>>]
KafkaId(topic) == [kind |-> "kafka", name |-> <<topic>>]
DbId(table) == [kind |-> "db", name |-> <<table>>]
RedisId(prefix) == [kind |-> "redis", name |-> <<prefix>>]

\* ImpactGraph::new
NewGraph == [nodes |-> <<>>, edges |-> <<>>]

\* a graph that takes no node
AddNoNode(g, id) == g

\* ImpactGraph::add_node: a node whose id is known is not added again
add_node(g, id) ==
    IF id \in Range(g.nodes) THEN g ELSE [g EXCEPT !.nodes = Append(@, id)]

ImpactEdge(from, to, edge_type, direction) ==
    [from |-> from, to |-> to, edge_type |-> edge_type, direction |-> direction]

\* ImpactGraph::add_edge: an edge to or from an unknown node is dropped
add_edge(g, e) ==
    IF e.from \in Range(g.nodes) /\ e.to \in Range(g.nodes)
    THEN [g EXCEPT !.edges = Append(@, e)]
    ELSE g

-----------------------------------------------------------------------------
(* The impact tracer: impact_tracer.rs.  An activation of                  *)
(* trace_method_upstream or trace_method_downstream is a frame of the      *)
(* stack; visited, a &mut HashSet, is the position v of the set in vsets.  *)

\* the callers of I::method_name for every interface I of the class
RECURSIVE InterfaceCallers(_, _, _)
InterfaceCallers(ci, interfaces, method_name) ==
    IF interfaces = <<>> THEN <<>>
    ELSE find_callers(ci, Qualify(Head(interfaces), method_name))
            \o InterfaceCallers(ci, Tail(interfaces), method_name)

\* all_callers of trace_method_upstream
AllCallers(ci, method) ==
    find_callers(ci, method)
        \o (IF HasSeparator(method)
            THEN InterfaceCallers(ci,
                                  find_class_interfaces(ci, ClassOf(method)),
                                  MethodOf(method))
            ELSE <<>>)

\* graph.add_node(resource node); graph.add_edge(between method and resource)
ResItem(node, edge) == [kind |-> "res", node |-> node, edge |-> edge]

\* one iteration of a loop over the counterparts of a resource: the visited
\* check, the counterpart's node and edge, and the traversal into it
HopItem(target, trace, edge) ==
    [kind |-> "hop", target |-> target, trace |-> trace, edge |-> edge]

\* the loop over the methods on the other side of a resource
HopsFrom(resource, targets, edge_type) ==
    [i \in 1 .. Len(targets) |->
        HopItem(targets[i], "down",
                ImpactEdge(resource, MethodId(targets[i]), edge_type,
                           "Downstream"))]

HopsTo(resource, targets, edge_type) ==
    [i \in 1 .. Len(targets) |->
        HopItem(targets[i], "up",
                ImpactEdge(MethodId(targets[i]), resource, edge_type,
                           "Upstream"))]

\* the edge to the resource without the loop over its readers
OutgoingWithoutReaders(method, resource, readers, edge_type) ==
    <<ResItem(resource,
              ImpactEdge(MethodId(method), resource, edge_type, "Downstream"))>>

\* a resource the method writes to: method -> resource, then its readers
Outgoing(method, resource, readers, edge_type) ==
    <<ResItem(resource,
              ImpactEdge(MethodId(method), resource, edge_type, "Downstream"))>>
        \o HopsFrom(resource, readers, edge_type)

\* the edge from the resource without the loop over its writers
IncomingWithoutWriters(method, resource, writers, edge_type) ==
    <<ResItem(resource,
              ImpactEdge(resource, MethodId(method), edge_type, "Upstream"))>>

\* a resource the method reads from: resource -> method, then its writers
Incoming(method, resource, writers, edge_type) ==
    <<ResItem(resource,
              ImpactEdge(resource, MethodId(method), edge_type, "Upstream"))>>
        \o HopsTo(resource, writers, edge_type)

\* trace_http_interface taking every annotated method for a provider
HttpItemsOfProvider(ci, method, method_info) ==
    IF method_info.http_annotations = NoHttp THEN <<>>
    ELSE LET http_annotation == method_info.http_annotations
         IN  Incoming(method,
                      HttpId(http_annotation.method, http_annotation.path),
                      find_http_consumers(ci, Endpoint(http_annotation)),
                      "HttpCall")

\* trace_http_interface taking every annotated method for a Feign client
HttpItemsOfClient(ci, method, method_info) ==
    IF method_info.http_annotations = NoHttp THEN <<>>
    ELSE LET http_annotation == method_info.http_annotations
         IN  Outgoing(method,
                      HttpId(http_annotation.method, http_annotation.path),
                      find_http_providers(ci, Endpoint(http_annotation)),
                      "HttpCall")

\* ImpactTracer::trace_http_interface
HttpItems(ci, method, method_info) ==
    IF method_info.http_annotations = NoHttp THEN <<>>
    ELSE LET http_annotation == method_info.http_annotations
             endpoint == Endpoint(http_annotation)
             endpoint_id == HttpId(http_annotation.method, http_annotation.path)
         IN  IF http_annotation.is_feign_client
             THEN Outgoing(method, endpoint_id,
                           find_http_providers(ci, endpoint), "HttpCall")
             ELSE Incoming(method, endpoint_id,
                           find_http_consumers(ci, endpoint), "HttpCall")

\* ImpactTracer::trace_kafka_topic
RECURSIVE KafkaItems(_, _, _)
KafkaItems(ci, method, ops) ==
    IF ops = <<>> THEN <<>>
    ELSE LET kafka_op == Head(ops)
             topic_id == KafkaId(kafka_op.topic)
         IN  (IF kafka_op.operation_type = "Produce"
              THEN Outgoing(method, topic_id,
                            find_kafka_consumers(ci, kafka_op.topic),
                            "KafkaProduceConsume")
              ELSE Incoming(method, topic_id,
                            find_kafka_producers(ci, kafka_op.topic),
                            "KafkaProduceConsume"))
             \o KafkaItems(ci, method, Tail(ops))

\* ImpactTracer::trace_database_table
RECURSIVE DbItems(_, _, _)
DbItems(ci, method, ops) ==
    IF ops = <<>> THEN <<>>
    ELSE LET db_op == Head(ops)
             table_id == DbId(db_op.table)
         IN  (IF db_op.operation_type = "Select"
              THEN Incoming(method, table_id,
                            find_db_writers(ci, db_op.table),
                            "DatabaseReadWrite")
              ELSE Outgoing(method, table_id,
                            find_db_readers(ci, db_op.table),
                            "DatabaseReadWrite"))
             \o DbItems(ci, method, Tail(ops))

\* ImpactTracer::trace_redis_key
RECURSIVE RedisItems(_, _, _)
RedisItems(ci, method, ops) ==
    IF ops = <<>> THEN <<>>
    ELSE LET redis_op == Head(ops)
             redis_id == RedisId(redis_op.key_pattern)
         IN  (IF redis_op.operation_type = "Get"
              THEN Incoming(method, redis_id,
                            find_redis_writers(ci, redis_op.key_pattern),
                            "RedisReadWrite")
              ELSE Outgoing(method, redis_id,
                            find_redis_readers(ci, redis_op.key_pattern),
                            "RedisReadWrite"))
             \o RedisItems(ci, method, Tail(ops))

\* ImpactTracer::trace_cross_service: HTTP, Kafka, database, Redis, in order
CrossItems(ci, method) ==
    LET method_info == find_method(ci, method)
    IN  IF method_info = NoMethod THEN <<>>
        ELSE HttpItems(ci, method, method_info)
                \o KafkaItems(ci, method, method_info.kafka_operations)
                \o DbItems(ci, method, method_info.db_operations)
                \o RedisItems(ci, method, method_info.redis_operations)

\* the activation of trace_method_upstream ("up") or trace_method_downstream
\* ("down") on method at depth, with visited = vsets[v]; owns: the visited
\* set is a local of the caller, dropped when the activation returns
Frame(fn, method, depth, v, owns) ==
    [fn |-> fn, method |-> method, depth |-> depth, v |-> v, owns |-> owns,
     pc |-> "enter", todo |-> <<>>]

Top == stack[Len(stack)]

Running == stack # <<>>

\* the activation on top of the stack returns
Pop(stk) == SubSeq(stk, 1, Len(stk) - 1)

Drop(sets, frame) ==
    IF frame.owns THEN SubSeq(sets, 1, Len(sets) - 1) ELSE sets

\* the activation on top of the stack continues at pc with the work todo
Continue(stk, pc, todo) ==
    [stk EXCEPT ![Len(stk)] = [@ EXCEPT !.pc = pc, !.todo = todo]]

\* the cycle check that looks at nothing: a mutant of AlreadyVisited
NeverVisited(visited, method) == FALSE

\* visited.contains(method)
AlreadyVisited(visited, method) == method \in visited

\* a depth limit that is never reached
NeverTooDeep(depth) == FALSE

\* depth >= self.config.max_depth
TooDeep(depth) == depth >= config.max_depth

\* trace_method_*: the depth limit or the cycle check returns at once
TraceSkip ==
    /\ Running
    /\ Top.pc = "enter"
    /\ TooDeep(Top.depth) \/ AlreadyVisited(vsets[Top.v], Top.method)
    /\ stack' = Pop(stack)
    /\ vsets' = Drop(vsets, Top)
    /\ UNCHANGED <<tindex, config, changed_methods, graph, tpc, seed, entered,
                   indexVars, storeVars, cacheVars, runVars,
                   extractVars>>

\* trace_method_*: visited.insert(method) and the lookup of the callers
\* (with those of the interface methods) or of the callees
TraceEnter ==
    /\ Running
    /\ Top.pc = "enter"
    /\ ~TooDeep(Top.depth)
    /\ ~AlreadyVisited(vsets[Top.v], Top.method)
    /\ vsets' = [vsets EXCEPT ![Top.v] = @ \cup {Top.method}]
    /\ stack' = Continue(stack, "calls",
                         IF Top.fn = "up"
                         THEN AllCallers(tindex, Top.method)
                         ELSE find_callees(tindex, Top.method))
    /\ entered' = [entered EXCEPT ![<<Top.fn, Top.method>>] = @ + 1]
    /\ UNCHANGED <<tindex, config, changed_methods, graph, tpc, seed,
                   indexVars, storeVars, cacheVars, runVars,
                   extractVars>>

\* one iteration of the loop that gives the loop up at a method that is not
\* indexed: a mutant of TraceCall
TraceCallGivingUp ==
    /\ Running
    /\ Top.pc = "calls"
    /\ Top.todo # <<>>
    /\ LET resolved == resolve_interface_call(tindex, Head(Top.todo))
           edge == IF Top.fn = "up"
                   THEN ImpactEdge(MethodId(resolved), MethodId(Top.method),
                                   "MethodCall", "Upstream")
                   ELSE ImpactEdge(MethodId(Top.method), MethodId(resolved),
                                   "MethodCall", "Downstream")
           rest == Continue(stack, "calls", Tail(Top.todo))
       IN  IF find_method(tindex, resolved) = NoMethod
           THEN /\ stack' = Continue(stack, "calls", <<>>)
                /\ graph' = graph
           ELSE /\ graph' = add_edge(add_node(graph, MethodId(resolved)), edge)
                /\ stack' = Append(rest, Frame(Top.fn, resolved, Top.depth + 1,
                                               Top.v, FALSE))
    /\ UNCHANGED <<tindex, config, changed_methods, vsets, tpc, seed, entered,
                   indexVars, storeVars, cacheVars, runVars,
                   extractVars>>

\* one iteration of the loop over the callers or callees: resolve the
\* interface call, skip a method that is not indexed, add the node and the
\* edge, recurse one level deeper with the same visited set
TraceCall ==
    /\ Running
    /\ Top.pc = "calls"
    /\ Top.todo # <<>>
    /\ LET resolved == resolve_interface_call(tindex, Head(Top.todo))
           edge == IF Top.fn = "up"
                   THEN ImpactEdge(MethodId(resolved), MethodId(Top.method),
                                   "MethodCall", "Upstream")
                   ELSE ImpactEdge(MethodId(Top.method), MethodId(resolved),
                                   "MethodCall", "Downstream")
           rest == Continue(stack, "calls", Tail(Top.todo))
       IN  IF find_method(tindex, resolved) = NoMethod
           THEN /\ stack' = rest
                /\ graph' = graph
           ELSE /\ graph' = add_edge(add_node(graph, MethodId(resolved)), edge)
                /\ stack' = Append(rest, Frame(Top.fn, resolved, Top.depth + 1,
                                               Top.v, FALSE))
    /\ UNCHANGED <<tindex, config, changed_methods, vsets, tpc, seed, entered,
                   indexVars, storeVars, cacheVars, runVars,
                   extractVars>>

\* after the loop: trace_cross_service whatever the configuration says
TraceCallsDoneCrossing ==
    /\ Running
    /\ Top.pc = "calls"
    /\ Top.todo = <<>>
    /\ stack' = Continue(stack, "cross", CrossItems(tindex, Top.method))
    /\ vsets' = vsets
    /\ UNCHANGED <<tindex, config, changed_methods, graph, tpc, seed, entered,
                   indexVars, storeVars, cacheVars, runVars,
                   extractVars>>

\* after the loop: trace_cross_service if enabled and the method is indexed
TraceCallsDone ==
    /\ Running
    /\ Top.pc = "calls"
    /\ Top.todo = <<>>
    /\ IF config.trace_cross_service
       THEN /\ stack' = Continue(stack, "cross", CrossItems(tindex, Top.method))
            /\ vsets' = vsets
       ELSE /\ stack' = Pop(stack)
            /\ vsets' = Drop(vsets, Top)
    /\ UNCHANGED <<tindex, config, changed_methods, graph, tpc, seed, entered,
                   indexVars, storeVars, cacheVars, runVars,
                   extractVars>>

\* trace_cross_service: the node of a resource of the method and the edge
\* between the two
TraceResource ==
    /\ Running
    /\ Top.pc = "cross"
    /\ Top.todo # <<>>
    /\ Head(Top.todo).kind = "res"
    /\ graph' = add_edge(add_node(graph, Head(Top.todo).node),
                         Head(Top.todo).edge)
    /\ stack' = Continue(stack, "cross", Tail(Top.todo))
    /\ UNCHANGED <<tindex, config, changed_methods, vsets, tpc, seed, entered,
                   indexVars, storeVars, cacheVars, runVars,
                   extractVars>>

\* trace_cross_service: one method on the other side of a resource; unless
\* visited, its node, its edge, and its traversal from depth 0 with a clone
\* of the visited set
TraceHop ==
    /\ Running
    /\ Top.pc = "cross"
    /\ Top.todo # <<>>
    /\ Head(Top.todo).kind = "hop"
    /\ LET item == Head(Top.todo)
           rest == Continue(stack, "cross", Tail(Top.todo))
       IN  IF AlreadyVisited(vsets[Top.v], item.target)
           THEN /\ stack' = rest
                /\ graph' = graph
                /\ vsets' = vsets
           ELSE /\ graph' = add_edge(add_node(graph, MethodId(item.target)),
                                     item.edge)
                /\ vsets' = Append(vsets, vsets[Top.v])
                /\ stack' = Append(rest, Frame(item.trace, item.target, 0,
                                               Len(vsets) + 1, TRUE))
    /\ UNCHANGED <<tindex, config, changed_methods, tpc, seed, entered,
                   indexVars, storeVars, cacheVars, runVars,
                   extractVars>>

\* trace_method_* returns after trace_cross_service
TraceReturn ==
    /\ Running
    /\ Top.pc = "cross"
    /\ Top.todo = <<>>
    /\ stack' = Pop(stack)
    /\ vsets' = Drop(vsets, Top)
    /\ UNCHANGED <<tindex, config, changed_methods, graph, tpc, seed, entered,
                   indexVars, storeVars, cacheVars, runVars,
                   extractVars>>

\* trace_impact, first half of the loop body: the node of the changed
\* method and its upstream traversal with the visited set of the whole call
TraceImpactUpstream ==
    /\ ~Running
    /\ tpc = "upstream"
    /\ graph' = add_node(graph, MethodId(changed_methods[seed]))
    /\ stack' = IF config.trace_upstream
                THEN <<Frame("up", changed_methods[seed], 0, 1, FALSE)>>
                ELSE <<>>
    /\ tpc' = "downstream"
    /\ UNCHANGED <<tindex, config, changed_methods, vsets, seed, entered,
                   indexVars, storeVars, cacheVars, runVars,
                   extractVars>>

\* trace_impact, second half of the loop body: the downstream traversal with
\* a new visited set
TraceImpactDownstream ==
    /\ ~Running
    /\ tpc = "downstream"
    /\ IF config.trace_downstream
       THEN /\ vsets' = Append(vsets, {})
            /\ stack' = <<Frame("down", changed_methods[seed], 0,
                                Len(vsets) + 1, TRUE)>>
       ELSE /\ vsets' = vsets
            /\ stack' = <<>>
    /\ seed' = seed + 1
    /\ tpc' = IF seed < Len(changed_methods) THEN "upstream" ELSE "return"
    /\ UNCHANGED <<tindex, config, changed_methods, graph, entered,
                   indexVars, storeVars, cacheVars, runVars,
                   extractVars>>

\* trace_impact returns Ok(graph)
TraceImpactReturn ==
    /\ ~Running
    /\ tpc = "return"
    /\ tpc' = "done"
    /\ UNCHANGED <<tindex, config, changed_methods, graph, stack, vsets, seed,
                   entered, indexVars, storeVars, cacheVars, runVars,
                   extractVars>>

-----------------------------------------------------------------------------
(* The inputs of the tracer model: methods A::a, B::b and C::m, where C    *)
(* may implement the interface I, with their calls and their resources.    *)

TA == QN("A", "a")
TB == QN("B", "b")
TC == QN("C", "m")
TI == QN("I", "m")

\* a name that is not indexed
TZ == QN("Z", "z")

Resources(http, kafka, db, redis) ==
    [http |-> http, kafka |-> kafka, db |-> db, redis |-> redis]

NoResources == Resources(NoHttp, <<>>, <<>>, <<>>)

Method(qn, calls, res) ==
    MethodRecord(qn, calls, res.http, res.kafka, res.db, res.redis)

ACalls == {<<>>, <<TI>>, <<TB, TC>>}
BCalls == {<<>>, <<TA>>, <<TC>>}
CCalls == {<<>>, <<TA>>}

AResources ==
    { NoResources,
      Resources(NoHttp, <<KafkaOp("Produce", "T"), KafkaOp("Consume", "U")>>,
                <<>>, <<>>),
      Resources(NoHttp, <<>>, <<DbOp("Select", "t"), DbOp("Insert", "t")>>,
                <<>>) }

BResources ==
    { NoResources,
      Resources(NoHttp, <<KafkaOp("Produce", "U"), KafkaOp("Consume", "T")>>,
                <<>>, <<>>),
      Resources(NoHttp, <<KafkaOp("Consume", "T")>>, <<>>, <<>>) }

CResources ==
    { NoResources,
      Resources(NoHttp, <<KafkaOp("Consume", "T")>>, <<>>, <<>>) }

\* the index of the workspace with these three methods
TraceIndex(ma, mb, mc, implements) ==
    IndexParsedFile(NewCodeIndex,
        FileRecord("ws",
                   <<ClassRecord(<<"A">>, FALSE, <<>>, <<ma>>),
                     ClassRecord(<<"B">>, FALSE, <<>>, <<mb>>),
                     ClassRecord(<<"C">>, FALSE, implements, <<mc>>)>>,
                   <<>>))

TraceIndexes ==
    { TraceIndex(Method(TA, ac, ar), Method(TB, bc, br), Method(TC, cc, cr), im) :
        ac \in ACalls, ar \in AResources, bc \in BCalls, br \in BResources,
        cc \in CCalls, cr \in CResources, im \in {<<>>, <<<<"I">>>>} }

TraceConfig(max_depth, up, down, cross) ==
    [max_depth |-> max_depth, trace_upstream |-> up, trace_downstream |-> down,
     trace_cross_service |-> cross]

TraceConfigs ==
    { TraceConfig(d, f[1], f[2], f[3]) :
        d \in {0, MaxDepth},
        f \in {<<TRUE, TRUE, TRUE>>, <<TRUE, TRUE, FALSE>>,
               <<TRUE, FALSE, TRUE>>, <<FALSE, TRUE, TRUE>>} }

SeedLists == {<<TA>>, <<TA, TB>>, <<TC>>}

\* every name a traversal can be entered on
TraceNames == {TA, TB, TC, TI, TZ}

Directions == {"up", "down"}

-----------------------------------------------------------------------------
(* The persistent index store: index_storage.rs.  A file of the workspace  *)
(* is the record of its directories, its stem and its extension; a version *)
(* "1.0.0" is the sequence of its "."-separated segments; an mtime is      *)
(* counted in ticks of 1/TicksPerSec second.                               *)

\* the ticks of the file system's clock in one second
TicksPerSec == 2

\* the latest mtime, in ticks
MaxTick == 2

\* the runs of the analyzer
MaxRuns == 2

\* the changes made to the workspace
MaxChanges == 1

\* INDEX_VERSION = "1.0.0"
INDEX_VERSION == <<"1", "0", "0">>

\* the workspace_path of the IndexStorage
WorkspacePath == "ws"

FilePath(dirs, stem, ext) == [dirs |-> dirs, stem |-> stem, ext |-> ext]

CJava == FilePath(<<"src">>, "C", "java")
GJava == FilePath(<<"build">>, "G", "java")
Notes == FilePath(<<"src">>, "notes", "md")

\* every path of the store model, in the order read_dir lists them
StorePaths == <<CJava, GJava, Notes>>

\* the names of the model that start with '.'
DotNames == {".git", ".code-impact-analyzer"}

\* name.starts_with('.') || name == "target" || name == "build"
\*     || name == "node_modules"
Skipped(name) ==
    name \in DotNames \/ name \in {"target", "build", "node_modules"}

\* the recursive walk reaches the file: no entry on the way to it is skipped
Reached(path) ==
    /\ \A i \in DOMAIN path.dirs : ~Skipped(path.dirs[i])
    /\ ~Skipped(path.stem)

\* IndexMetadata::is_source_file
is_source_file(path) ==
    path.ext \in {"java", "rs", "kt", "scala", "go", "py", "js", "ts"}

\* LanguageDetector::is_supported
is_supported(path) == path.ext \in {"java", "rs"}

\* the walk that hashes nothing: a mutant of collect_file_mtimes
CollectNothing(workspace_path, fs) == <<>>

\* IndexMetadata::collect_file_mtimes: (path, duration.as_secs()) of every
\* source file the walk reaches
collect_file_mtimes(workspace_path, fs) ==
    LET Listed(p) == p \in DOMAIN fs /\ Reached(p) /\ is_source_file(p)
        found == SelectSeq(StorePaths, Listed)
    IN  [i \in 1 .. Len(found) |->
            [path  |-> <<workspace_path, found[i]>>,
             mtime |-> fs[found[i]] \div TicksPerSec]]

\* IndexMetadata::calculate_checksum: the digest of the stream of paths and
\* mtimes, taken as free of collisions and so as the stream itself
calculate_checksum(workspace_path, fs) ==
    collect_file_mtimes(workspace_path, fs)

\* version.split('.').next()
Major(version) == version[1]

\* the version check that accepts every version: a mutant
AnyVersionCompatible(metadata) == TRUE

\* IndexMetadata::is_version_compatible
is_version_compatible(metadata) ==
    Major(INDEX_VERSION) = Major(metadata.version)

\* IndexMetadata::is_valid
is_valid(metadata, workspace_path, fs) ==
    IF ~is_version_compatible(metadata) THEN FALSE
    ELSE IF metadata.workspace_path # workspace_path THEN FALSE
    ELSE metadata.checksum = calculate_checksum(workspace_path, fs)

\* a file of the index directory: missing, unparsable, or with its content
NoFile == [state |-> "missing"]
Garbled == [state |-> "garbled"]

\* IndexMetadata::new, as index.meta.json holds it
NewMetadata(version, workspace_path, fs, file_count, method_count) ==
    [state          |-> "ok",
     version        |-> version,
     workspace_path |-> workspace_path,
     file_count     |-> file_count,
     method_count   |-> method_count,
     checksum       |-> calculate_checksum(workspace_path, fs)]

\* every order in which a HashMap may iterate over the keys
Orders(keys) ==
    {s \in [1 .. Cardinality(keys) -> keys] : Range(s) = keys}

\* format!("{}:{}", http_ann.method, http_ann.path)
HttpKey(annotation) == <<annotation.method, annotation.path>>

\* serialize_index, the loops over &methods: the resource maps are rebuilt
\* from the annotations and the operations of one method
SerializeMethod(acc, name, method) ==
    LET http == method.http_annotations
        c1 == IF http = NoHttp THEN acc
              ELSE IF http.is_feign_client
                   THEN [acc EXCEPT !.http_consumers =
                                        PushEntry(@, HttpKey(http), name)]
                   ELSE [acc EXCEPT !.http_providers =
                                        Insert(@, HttpKey(http), name)]
        c2 == IndexKafkaOps(c1, name, method.kafka_operations)
        c3 == IndexDbOps(c2, name, method.db_operations)
    IN  IndexRedisOps(c3, name, method.redis_operations)

RECURSIVE SerializeMethods(_, _, _)
SerializeMethods(acc, methods, order) ==
    IF order = <<>> THEN acc
    ELSE SerializeMethods(
            SerializeMethod(acc, Head(order), methods[Head(order)]),
            methods, Tail(order))

\* the keys of methods with a value that is not empty
NonEmpty(methods, map) == {n \in DOMAIN methods : Get(map, n) # <<>>}

\* IndexStorage::serialize_index, with the HashMap iterating in order
serialize_index(code_index, order) ==
    LET rebuilt == SerializeMethods(NewCodeIndex, code_index.methods, order)
    IN  [state               |-> "ok",
         methods             |-> code_index.methods,
         method_calls        |->
             [n \in NonEmpty(code_index.methods, code_index.method_calls) |->
                 find_callees(code_index, n)],
         reverse_calls       |->
             [n \in NonEmpty(code_index.methods, code_index.reverse_calls) |->
                 find_callers(code_index, n)],
         http_providers      |-> rebuilt.http_providers,
         http_consumers      |-> rebuilt.http_consumers,
         kafka_producers     |-> rebuilt.kafka_producers,
         kafka_consumers     |-> rebuilt.kafka_consumers,
         db_writers          |-> rebuilt.db_writers,
         db_readers          |-> rebuilt.db_readers,
         redis_writers       |-> rebuilt.redis_writers,
         redis_readers       |-> rebuilt.redis_readers,
         config_associations |-> EmptyMap]

\* IndexStorage::deserialize_index: test_index_method on every value of
\* data.methods, in the order the HashMap yields them
deserialize_index(data, order) ==
    IndexMethods(NewCodeIndex,
                 [i \in 1 .. Len(order) |-> data.methods[order[i]]])

\* the number of methods and of their files, as save_index counts them
MethodCount(data) == Cardinality(DOMAIN data.methods)
FileCount(data) ==
    Cardinality({data.methods[n].file_path : n \in DOMAIN data.methods})

\* the results of load_index
LoadNone == [kind |-> "none", index |-> NewCodeIndex]
LoadErr == [kind |-> "err", index |-> NewCodeIndex]
LoadSome(code_index) == [kind |-> "some", index |-> code_index]

\* IndexStorage::index_exists
index_exists(meta, data) == meta # NoFile /\ data # NoFile

\* IndexStorage::load_index
load_index(meta, data, workspace_path, fs, order) ==
    IF ~index_exists(meta, data) THEN LoadNone
    ELSE IF meta = Garbled THEN LoadErr
    ELSE IF ~is_valid(meta, workspace_path, fs) THEN LoadNone
    ELSE IF data = Garbled THEN LoadErr
    ELSE LoadSome(deserialize_index(data, order))

\* what the parser makes of a file of the store model: C.java declares the
\* interface I and its implementation C
ParseSource(path) ==
    IF path = CJava
    THEN FileRecord(path,
             <<ClassRecord(<<"I">>, TRUE, <<>>,
                 <<InFile(Plain(QN("I", "m"), <<>>), path)>>),
               ClassRecord(<<"C">>, FALSE, <<<<"I">>>>,
                 <<InFile(MethodRecord(QN("C", "m"), <<QN("I", "m")>>,
                                       HttpAnn("GET", "/u", FALSE),
                                       <<KafkaOp("Produce", "T")>>,
                                       <<DbOp("Select", "t")>>,
                                       <<RedisOp("Set", "k")>>), path)>>)>>,
             <<>>)
    ELSE FileRecord(path,
             <<ClassRecord(<<"G">>, FALSE, <<>>,
                 <<InFile(Plain(QN("G", "g"), <<>>), path)>>)>>,
             <<>>)

RECURSIVE IndexParsedFiles(_, _)
IndexParsedFiles(ci, paths) ==
    IF paths = <<>> THEN ci
    ELSE IndexParsedFiles(IndexParsedFile(ci, ParseSource(Head(paths))),
                          Tail(paths))

\* CodeIndex::index_workspace on a new index: every supported file the walk
\* reaches is parsed, and the parsed files are merged in the order of the walk
index_workspace(fs) ==
    LET Collected(p) == p \in DOMAIN fs /\ Reached(p) /\ is_supported(p)
    IN  IndexParsedFiles(NewCodeIndex, SelectSeq(StorePaths, Collected))

\* AnalysisOrchestrator::is_config_file
is_config_file(path) == path.ext \in {"xml", "yaml", "yml"}

\* AnalysisOrchestrator::find_config_files: the walk of collect_config_files
find_config_files(fs) ==
    LET Config(p) == p \in DOMAIN fs /\ Reached(p) /\ is_config_file(p)
    IN  SelectSeq(StorePaths, Config)

\* the workspace with these files, all last modified at tick 0
FilesOf(paths) == [p \in paths |-> 0]

\* the run that wrote each file of the index directory (0: an earlier one),
\* the workspace the checksum was taken of, the index each was written for,
\* the workspace as index_workspace last parsed it, and as it was parsed for
\* the index of the data file
NoGhost(fs, code_index) ==
    [metaSave |-> 0, metaFiles |-> fs, metaFrom |-> code_index,
     dataSave |-> 0, dataFrom |-> code_index,
     parsed |-> fs, dataParsed |-> fs]

NeverLoaded(fs, g) ==
    [kind |-> "never", index |-> NewCodeIndex, meta |-> NoFile,
     data |-> NoFile, files |-> fs, ghost |-> g]

\* the versions and workspace paths of the runs that left an index behind
LeftVersions == {INDEX_VERSION, <<"1", "3", "0">>, <<"2", "0", "0">>}
LeftPaths == {WorkspacePath, "ws_old"}

\* no store is in use
IdleStore ==
    /\ files = EmptyMap
    /\ mem = NewCodeIndex
    /\ disk_meta = NoFile
    /\ disk_data = NoFile
    /\ pending = NoFile
    /\ spc = "idle"
    /\ ghost = NoGhost(EmptyMap, NewCodeIndex)
    /\ loaded = NeverLoaded(EmptyMap, ghost)
    /\ budget = [runs |-> 0, changes |-> 0]

-----------------------------------------------------------------------------
(* The shared parse cache: parse_cache.rs, behind the Mutex that           *)
(* index_workspace creates and parse_file_with_cache locks.                *)

\* the paths handed to the workers of one index_workspace
MaxRequests == 3

\* the threads of the pool
Workers == {1, 2}

\* a.java always parses; reading or parsing b.java may fail
CachePaths == {"a.java", "b.java"}
ParseOutcomes(path) == IF path = "a.java" THEN {TRUE} ELSE {TRUE, FALSE}

\* the ParsedFile of a path
Parsed(path) == [file_path |-> path]

\* a lock that is granted to everyone: a mutant of LockFree
LockAlwaysFree == TRUE

\* cache.lock() returns the guard once no other thread holds it
LockFree == mutex = 0

\* a worker between two calls of parse_file_with_cache
Waiting == [pc |-> "idle", path |-> ""]

At(w, pc) == worker[w].pc = pc

Goto(w, pc) == [worker EXCEPT ![w].pc = pc]

\* one get_or_parse call, as the log keeps it
Logged(w, event) == [path |-> worker[w].path, by |-> w, event |-> event]

\* the step leaves the variables of the other models alone
CacheOnly ==
    UNCHANGED <<indexVars, traceVars, storeVars, runVars, extractVars>>

\* parse_file_with_cache is called on the next path and takes the lock
CacheLock(w) ==
    /\ At(w, "idle")
    /\ requests # <<>>
    /\ LockFree
    /\ mutex' = w
    /\ worker' = [worker EXCEPT ![w] = [pc |-> "check", path |-> Head(requests)]]
    /\ requests' = Tail(requests)
    /\ CacheOnly
    /\ UNCHANGED <<cache, parse_log>>

\* get_or_parse: a path in the cache is answered from the cache
CacheHit(w) ==
    /\ At(w, "check")
    /\ worker[w].path \in DOMAIN cache
    /\ parse_log' = Append(parse_log, Logged(w, "hit"))
    /\ worker' = Goto(w, "return")
    /\ CacheOnly
    /\ UNCHANGED <<requests, mutex, cache>>

\* get_or_parse: a path that is not in the cache is to be parsed
CacheMiss(w) ==
    /\ At(w, "check")
    /\ worker[w].path \notin DOMAIN cache
    /\ worker' = Goto(w, "parse")
    /\ CacheOnly
    /\ UNCHANGED <<requests, mutex, cache, parse_log>>

\* get_or_parse with an insert for the path whatever parse_fn returns
CacheParseAlways(w) ==
    /\ At(w, "parse")
    /\ \E ok \in ParseOutcomes(worker[w].path) :
          /\ cache' = Insert(cache, worker[w].path, Parsed(worker[w].path))
          /\ parse_log' = Append(parse_log,
                                 Logged(w, IF ok THEN "parsed" ELSE "failed"))
    /\ worker' = Goto(w, "return")
    /\ CacheOnly
    /\ UNCHANGED <<requests, mutex>>

\* get_or_parse: parse_fn(path)? and, if it succeeds, the insert
CacheParse(w) ==
    /\ At(w, "parse")
    /\ \E ok \in ParseOutcomes(worker[w].path) :
          IF ok
          THEN /\ cache' = Insert(cache, worker[w].path, Parsed(worker[w].path))
               /\ parse_log' = Append(parse_log, Logged(w, "parsed"))
          ELSE /\ cache' = cache
               /\ parse_log' = Append(parse_log, Logged(w, "failed"))
    /\ worker' = Goto(w, "return")
    /\ CacheOnly
    /\ UNCHANGED <<requests, mutex>>

\* parse_file_with_cache returns and the guard is dropped
CacheReturn(w) ==
    /\ At(w, "return")
    /\ mutex' = 0
    /\ worker' = [worker EXCEPT ![w] = Waiting]
    /\ CacheOnly
    /\ UNCHANGED <<requests, cache, parse_log>>

\* no cache is in use
IdleCache ==
    /\ requests = <<>>
    /\ worker = [w \in Workers |-> Waiting]
    /\ mutex = 0
    /\ cache = EmptyMap
    /\ parse_log = <<>>

\* the paths of one index_workspace, in the order the pool takes them
RequestLists ==
    UNION {[1 .. n -> CachePaths] : n \in 1 .. MaxRequests}

-----------------------------------------------------------------------------
(* One analysis: run of lib.rs and AnalysisOrchestrator::analyze of        *)
(* orchestrator.rs.  What a file holds is read when the file is taken: a   *)
(* patch parses into some file changes or fails, and so on.  The           *)
(* Vec<FileChange> is its length, a diagnostic is its kind.                *)

\* the .patch files of a patch directory
MaxPatches == 2

\* the file changes of one patch
MaxFileChanges == 1

\* the source files of the workspace
MaxSources == 2

\* the configuration files of the workspace
MaxConfigs == 1

\* the steps of run that are steps of analyze
AnalyzeSteps ==
    {"patches", "patch", "index", "walk", "sources", "configs", "extract",
     "trace", "statistics"}

\* run has returned, or the process has ended
RunEnded == rpc \in {"done", "failed", "panicked"}

\* a line written by log::warn!, eprintln! or println! at the current step
Event(by, about) == [by |-> by, about |-> about, step |-> rpc]
Warn(about) == Event("log::warn", about)

\* main: log::error!, eprintln!("Error: {}", e), process::exit(1)
Fatal == <<Event("log::error", "fatal"), Event("eprintln", "fatal")>>

\* PatchParser::parse_patch_file: an error, or the file changes of the patch
PatchOutcomes ==
    {[ok |-> FALSE, changes |-> 0]}
        \cup {[ok |-> TRUE, changes |-> n] : n \in 0 .. MaxFileChanges}

\* a - b in usize with overflow checks off: 2^64 - (b - a) when b > a
WrappingSub(a, b) == IF a >= b THEN a - b ELSE [below_two_pow_64 |-> b - a]

NoResult == [state |-> "none"]

\* AnalysisResult: statistics, warnings, errors
AnalysisResult(total_files, parsed_files, failed_files, w, e) ==
    [state        |-> "ok",
     total_files  |-> total_files,
     parsed_files |-> parsed_files,
     failed_files |-> failed_files,
     warnings     |-> w,
     errors       |-> e]

\* the step leaves the variables of the other models alone
RunOnly ==
    UNCHANGED <<indexVars, traceVars, storeVars, cacheVars, extractVars>>

\* parse_patches_from_directory, the path is a file: parse_patch, whose
\* error is the error of analyze and of run
ParseSinglePatch ==
    /\ rpc = "patches"
    /\ args.diff = "file"
    /\ \E parsed \in PatchOutcomes :
          IF parsed.ok
          THEN /\ file_changes' = parsed.changes
               /\ emitted' = Append(emitted, Warn("single-file"))
               /\ rpc' = "index"
               /\ UNCHANGED <<errors, occurred>>
          ELSE /\ errors' = Append(errors, "patch")
               /\ occurred' = Append(occurred, "patch")
               /\ emitted' = Append(emitted, Warn("single-file")) \o Fatal
               /\ rpc' = "failed"
               /\ UNCHANGED file_changes
    /\ RunOnly
    /\ UNCHANGED <<args, remaining, warnings, analysis>>

\* parse_patches_from_directory, the path is a directory: the .patch files
\* are listed; without one the changes are empty
ListPatches ==
    /\ rpc = "patches"
    /\ args.diff = "dir"
    /\ IF args.patch_files = 0
       THEN /\ warnings' = Append(warnings, "no-patches")
            /\ emitted' = Append(emitted, Warn("no-patches"))
            /\ rpc' = "index"
            /\ remaining' = remaining
       ELSE /\ remaining' = args.patch_files
            /\ rpc' = "patch"
            /\ UNCHANGED <<warnings, emitted>>
    /\ RunOnly
    /\ UNCHANGED <<args, errors, file_changes, occurred, analysis>>

\* parse_patches_from_directory, one iteration of the loop over patch_files:
\* parse_patch records its error in errors, the loop records a warning
ParsePatch ==
    /\ rpc = "patch"
    /\ remaining > 0
    /\ remaining' = remaining - 1
    /\ \E parsed \in PatchOutcomes :
          IF parsed.ok
          THEN /\ file_changes' = file_changes + parsed.changes
               /\ UNCHANGED <<warnings, errors, emitted, occurred>>
          ELSE /\ errors' = Append(errors, "patch")
               /\ warnings' = Append(warnings, "patch")
               /\ emitted' = Append(emitted, Warn("patch"))
               /\ occurred' = Append(occurred, "patch")
               /\ UNCHANGED file_changes
    /\ RunOnly
    /\ UNCHANGED <<args, rpc, analysis>>

\* parse_patches_from_directory returns all_changes
PatchesDone ==
    /\ rpc = "patch"
    /\ remaining = 0
    /\ rpc' = "index"
    /\ RunOnly
    /\ UNCHANGED <<args, remaining, warnings, errors, file_changes, emitted,
                   occurred, analysis>>

\* build_index: clear_index with force_rebuild, load_index without; the
\* index that load_index returns is the index of the analysis
LoadOrClear ==
    /\ rpc = "index"
    /\ IF args.rebuild_index
       THEN /\ rpc' = "walk"
            /\ UNCHANGED <<emitted, occurred>>
       ELSE \E outcome \in {"some", "none", "err"} :
               /\ rpc' = IF outcome = "some" THEN "extract" ELSE "walk"
               /\ emitted' = IF outcome = "err"
                             THEN Append(emitted, Warn("load")) ELSE emitted
               /\ occurred' = IF outcome = "err"
                              THEN Append(occurred, "load") ELSE occurred
    /\ RunOnly
    /\ UNCHANGED <<args, remaining, warnings, errors, file_changes, analysis>>

\* index_workspace, collect_source_files: its error is the error of
\* build_index, of analyze and of run
CollectSourceFiles ==
    /\ rpc = "walk"
    /\ \E walked \in BOOLEAN :
          IF walked
          THEN /\ remaining' = args.source_files
               /\ rpc' = "sources"
               /\ UNCHANGED <<errors, emitted, occurred>>
          ELSE /\ errors' = Append(errors, "index")
               /\ occurred' = Append(occurred, "index")
               /\ emitted' = emitted \o Fatal
               /\ rpc' = "failed"
               /\ remaining' = remaining
    /\ RunOnly
    /\ UNCHANGED <<args, warnings, file_changes, analysis>>

\* index_workspace, the closure of filter_map on one source file: a parse
\* failure is written to stderr and the file is left out
ParseSourceFile ==
    /\ rpc = "sources"
    /\ remaining > 0
    /\ remaining' = remaining - 1
    /\ \E parsed \in BOOLEAN :
          IF parsed
          THEN UNCHANGED <<emitted, occurred>>
          ELSE /\ emitted' = Append(emitted, Event("eprintln", "source"))
               /\ occurred' = Append(occurred, "source")
    /\ RunOnly
    /\ UNCHANGED <<args, rpc, warnings, errors, file_changes, analysis>>

\* index_workspace returns Ok; parse_and_associate_configs finds the
\* configuration files
SourcesDone ==
    /\ rpc = "sources"
    /\ remaining = 0
    /\ remaining' = args.config_files
    /\ rpc' = "configs"
    /\ RunOnly
    /\ UNCHANGED <<args, warnings, errors, file_changes, emitted, occurred,
                   analysis>>

\* parse_and_associate_configs, one iteration of the loop over config_files
ParseConfigFile ==
    /\ rpc = "configs"
    /\ remaining > 0
    /\ remaining' = remaining - 1
    /\ \E parsed \in BOOLEAN :
          IF parsed
          THEN UNCHANGED <<warnings, emitted, occurred>>
          ELSE /\ warnings' = Append(warnings, "config")
               /\ emitted' = Append(emitted, Warn("config"))
               /\ occurred' = Append(occurred, "config")
    /\ RunOnly
    /\ UNCHANGED <<args, rpc, errors, file_changes, analysis>>

\* build_index, save_index: a failure is logged and the index is returned
SaveIndex ==
    /\ rpc = "configs"
    /\ remaining = 0
    /\ \E saved \in BOOLEAN :
          emitted' = IF saved THEN emitted ELSE Append(emitted, Warn("save"))
    /\ rpc' = "extract"
    /\ RunOnly
    /\ UNCHANGED <<args, remaining, warnings, errors, file_changes, occurred,
                   analysis>>

\* missing warnings of extract_changed_methods
RECURSIVE MissingFiles(_)
MissingFiles(missing) ==
    IF missing = 0 THEN <<>> ELSE Append(MissingFiles(missing - 1), "file")

\* extract_changed_methods: a file change whose file is not in the workspace
\* or cannot be read is a warning
ExtractChangedMethods ==
    /\ rpc = "extract"
    /\ \E missing \in 0 .. file_changes :
          /\ warnings' = warnings \o MissingFiles(missing)
          /\ emitted' = emitted \o [i \in 1 .. missing |-> Warn("file")]
    /\ rpc' = "trace"
    /\ RunOnly
    /\ UNCHANGED <<args, remaining, errors, file_changes, occurred, analysis>>

\* AnalysisOrchestrator::trace_impact: ImpactTracer::trace_impact returns Ok
TraceImpact ==
    /\ rpc = "trace"
    /\ rpc' = "statistics"
    /\ RunOnly
    /\ UNCHANGED <<args, remaining, warnings, errors, file_changes, emitted,
                   occurred, analysis>>

\* analyze, AnalysisStatistics and AnalysisResult: parsed_files is
\* file_changes.len() - self.errors.len() in usize, which panics with
\* overflow checks and wraps without them
Statistics ==
    /\ rpc = "statistics"
    /\ \E overflow_checks \in BOOLEAN :
          IF file_changes < Len(errors) /\ overflow_checks
          THEN /\ rpc' = "panicked"
               /\ emitted' = Append(emitted, Event("eprintln", "panic"))
               /\ analysis' = analysis
          ELSE /\ rpc' = "warnings"
               /\ emitted' = emitted
               /\ analysis' = AnalysisResult(file_changes,
                                           WrappingSub(file_changes,
                                                       Len(errors)),
                                           Len(errors), warnings, errors)
    /\ RunOnly
    /\ UNCHANGED <<args, remaining, warnings, errors, file_changes, occurred>>

\* run: the warnings of the analysis are logged
EmitWarnings ==
    /\ rpc = "warnings"
    /\ emitted' = IF analysis.warnings = <<>> THEN emitted
                  ELSE Append(emitted, Warn("summary"))
                          \o [i \in 1 .. Len(analysis.warnings) |->
                                 Warn(analysis.warnings[i])]
    /\ rpc' = "output"
    /\ RunOnly
    /\ UNCHANGED <<args, remaining, warnings, errors, file_changes, occurred,
                   analysis>>

OutputFormats == {"Dot", "Json", "Mermaid"}

\* output_result: the graph is printed with one println!
OutputResult ==
    /\ rpc = "output"
    /\ \E output_format \in OutputFormats :
          emitted' = (IF output_format = "Mermaid"
                      THEN Append(emitted, Warn("mermaid")) ELSE emitted)
                        \o <<Event("println", "graph")>>
    /\ rpc' = "done"
    /\ RunOnly
    /\ UNCHANGED <<args, remaining, warnings, errors, file_changes, occurred,
                   analysis>>

\* what run is called with: the patch path is a file or a directory
RunArgs ==
    { [diff |-> d, patch_files |-> p, rebuild_index |-> r,
       source_files |-> s, config_files |-> c] :
        d \in {"file", "dir"}, p \in 0 .. MaxPatches, r \in BOOLEAN,
        s \in 0 .. MaxSources, c \in 0 .. MaxConfigs }

\* no analysis is running
IdleRun ==
    /\ args = [diff |-> "dir", patch_files |-> 0, rebuild_index |-> FALSE,
               source_files |-> 0, config_files |-> 0]
    /\ rpc = "idle"
    /\ remaining = 0
    /\ warnings = <<>>
    /\ errors = <<>>
    /\ file_changes = 0
    /\ emitted = <<>>
    /\ occurred = <<>>
    /\ analysis = NoResult

-----------------------------------------------------------------------------
(* The changed methods: extract_changed_methods of orchestrator.rs.  A     *)
(* path is the sequence of its components, a line range a pair of line     *)
(* numbers, and a file of the workspace is there ("ok"), missing, or there *)
(* but not readable.                                                       *)

\* Hunk: the fields extract_changed_methods reads
Hunk(new_start, new_lines) == [new_start |-> new_start, new_lines |-> new_lines]

FileChange(file_path, hunks) == [file_path |-> file_path, hunks |-> hunks]

\* self.workspace_path.join(&file_change.file_path), of a relative path
JoinWorkspace(file_path) == <<WorkspacePath>> \o file_path

\* modified_line_ranges: (hunk.new_start, hunk.new_start + hunk.new_lines)
ModifiedLineRanges(hunks) ==
    [i \in DOMAIN hunks |->
        <<hunks[i].new_start, hunks[i].new_start + hunks[i].new_lines>>]

\* an overlap test that leaves out the ranges that only touch: a mutant
OverlapsInside(line_range, change) ==
    line_range[1] < change[2] /\ line_range[2] > change[1]

\* method_start <= *change_end && method_end >= *change_start
Overlaps(line_range, change) ==
    line_range[1] <= change[2] /\ line_range[2] >= change[1]

\* the two `continue`s and the `break` of the loop over code_index.methods():
\* the method is pushed when it is in the file and overlaps some range
InChange(method_info, file_path, ranges) ==
    /\ method_info.file_path = file_path
    /\ \E i \in DOMAIN ranges : Overlaps(method_info.line_range, ranges[i])

\* the names of the model in the order of String's Ord
NameOrder == <<"A::f", "A::g", "B::h">>

RECURSIVE Repeat(_, _)
Repeat(v, n) == IF n = 0 THEN <<>> ELSE <<v>> \o Repeat(v, n - 1)

RECURSIVE SortBy(_, _)
SortBy(order, s) ==
    IF order = <<>> THEN <<>>
    ELSE Repeat(Head(order), Count(s, Head(order))) \o SortBy(Tail(order), s)

\* changed_methods.sort()
sort(s) == SortBy(NameOrder, s)

RECURSIVE dedup(_)
\* changed_methods.dedup(): consecutive equal elements are removed
dedup(s) ==
    IF Len(s) <= 1 THEN s
    ELSE IF s[1] = s[2] THEN dedup(Tail(s))
    ELSE <<s[1]>> \o dedup(Tail(s))

\* the step leaves the variables of the other models alone
ExtractOnly ==
    UNCHANGED <<indexVars, traceVars, storeVars, cacheVars, runVars>>

\* one iteration of the loop over file_changes whose file does not exist or
\* cannot be read: a warning, and `continue`
ExtractSkipFile ==
    /\ ecm_pc = "loop"
    /\ ecm_todo # <<>>
    /\ ecm_files[JoinWorkspace(Head(ecm_todo).file_path)] # "ok"
    /\ ecm_warnings' =
          Append(ecm_warnings, ecm_files[JoinWorkspace(Head(ecm_todo).file_path)])
    /\ ecm_todo' = Tail(ecm_todo)
    /\ ExtractOnly
    /\ UNCHANGED <<ecm_file_changes, ecm_code_index, ecm_files, ecm_pc,
                   ecm_changed_methods>>

\* one iteration of the loop over file_changes whose file is read: the
\* methods of the file that overlap a range are pushed, in the order in
\* which the HashMap iterates
ExtractFromFile ==
    /\ ecm_pc = "loop"
    /\ ecm_todo # <<>>
    /\ ecm_files[JoinWorkspace(Head(ecm_todo).file_path)] = "ok"
    /\ \E order \in Orders(DOMAIN ecm_code_index) :
          LET file_path == JoinWorkspace(Head(ecm_todo).file_path)
              ranges == ModifiedLineRanges(Head(ecm_todo).hunks)
              Pushed(name) == InChange(ecm_code_index[name], file_path, ranges)
          IN  ecm_changed_methods' =
                  ecm_changed_methods \o SelectSeq(order, Pushed)
    /\ ecm_todo' = Tail(ecm_todo)
    /\ ExtractOnly
    /\ UNCHANGED <<ecm_file_changes, ecm_code_index, ecm_files, ecm_pc,
                   ecm_warnings>>

\* after the loop: sort, dedup, Ok(changed_methods)
ExtractReturn ==
    /\ ecm_pc = "loop"
    /\ ecm_todo = <<>>
    /\ ecm_changed_methods' = dedup(sort(ecm_changed_methods))
    /\ ecm_pc' = "done"
    /\ ExtractOnly
    /\ UNCHANGED <<ecm_file_changes, ecm_code_index, ecm_files, ecm_todo,
                   ecm_warnings>>

\* extract_changed_methods is not running
IdleExtract ==
    /\ ecm_file_changes = <<>>
    /\ ecm_code_index = <<>>
    /\ ecm_files = <<>>
    /\ ecm_todo = <<>>
    /\ ecm_pc = "idle"
    /\ ecm_changed_methods = <<>>
    /\ ecm_warnings = <<>>

-----------------------------------------------------------------------------
(* SpecIndex: any sequence of indexing operations on a fresh index.        *)

\* no trace is running
IdleTrace ==
    /\ tindex = NewCodeIndex
    /\ config = TraceConfig(0, FALSE, FALSE, FALSE)
    /\ changed_methods = <<>>
    /\ graph = NewGraph
    /\ stack = <<>>
    /\ vsets = <<>>
    /\ tpc = "idle"
    /\ seed = 0
    /\ entered = <<>>

InitIndex ==
    /\ idx = NewCodeIndex
    /\ idxPrev = NewCodeIndex
    /\ log = <<>>
    /\ IdleRun
    /\ IdleExtract
    /\ IdleTrace
    /\ IdleStore
    /\ IdleCache

\* index_method(method), also reached as test_index_method
DoIndexMethod ==
    \E method \in IndexedMethods :
        /\ Len(log) < MaxOps
        /\ idx' = IndexMethod(idx, method)
        /\ idxPrev' = idx
        /\ log' = Append(log, [op |-> "index_method", arg |-> method])
        /\ UNCHANGED <<traceVars, storeVars, cacheVars, runVars,
                   extractVars>>

\* the paths of the files merged into the index so far
IndexedPaths ==
    {log[i].arg.file_path : i \in {j \in DOMAIN log : log[j].op = "index_parsed_file"}}

\* index_parsed_file(parsed_file), the merge step of index_workspace: the
\* workspace walk lists every path once
DoIndexParsedFile ==
    \E parsed_file \in ParsedFiles :
        /\ Len(log) < MaxOps
        /\ parsed_file.file_path \notin IndexedPaths
        /\ idx' = IndexParsedFile(idx, parsed_file)
        /\ idxPrev' = idx
        /\ log' = Append(log, [op |-> "index_parsed_file", arg |-> parsed_file])
        /\ UNCHANGED <<traceVars, storeVars, cacheVars, runVars,
                   extractVars>>

NextIndex ==
    \/ DoIndexMethod
    \/ DoIndexParsedFile

SpecIndex == InitIndex /\ [][NextIndex]_vars

-----------------------------------------------------------------------------
(* SpecTrace: one call of trace_impact, on any index, configuration and    *)
(* list of changed methods of the tracer model.                            *)

\* no index is being built
IdleIndex ==
    /\ idx = NewCodeIndex
    /\ idxPrev = NewCodeIndex
    /\ log = <<>>

\* trace_impact is called: the empty graph and the empty visited set
InitTrace ==
    /\ IdleRun
    /\ IdleExtract
    /\ IdleIndex
    /\ IdleStore
    /\ IdleCache
    /\ tindex \in TraceIndexes
    /\ config \in TraceConfigs
    /\ changed_methods \in SeedLists
    /\ graph = NewGraph
    /\ stack = <<>>
    /\ vsets = <<{}>>
    /\ tpc = IF changed_methods = <<>> THEN "return" ELSE "upstream"
    /\ seed = 1
    /\ entered = [k \in Directions \X TraceNames |-> 0]

NextTrace ==
    \/ TraceImpactUpstream
    \/ TraceImpactDownstream
    \/ TraceImpactReturn
    \/ TraceSkip
    \/ TraceEnter
    \/ TraceCall
    \/ TraceCallsDone
    \/ TraceResource
    \/ TraceHop
    \/ TraceReturn

SpecTrace == InitTrace /\ [][NextTrace]_vars

\* trace_impact is a sequential computation that runs to its end
SpecTraceFair == SpecTrace /\ WF_vars(NextTrace)

-----------------------------------------------------------------------------
(* SpecEdges: one call of trace_impact on the indexes of a workspace with  *)
(* the interface I (its method m and its default method d), the class C,   *)
(* which may implement I, and the class X; X::x may be a Feign client of   *)
(* GET /u and a consumer of the topic T, C::m the provider of GET /u and a *)
(* producer of T.                                                          *)

EX == QN("X", "x")
ED == QN("I", "d")

GetU == HttpAnn("GET", "/u", FALSE)
FeignGetU == HttpAnn("GET", "/u", TRUE)

\* the declarations of the interface I: none, or m with a default method d
\* that calls I::m or C::m
IDeclarations ==
    { <<>> } \cup
    { <<ClassRecord(<<"I">>, TRUE, <<>>, <<Plain(TI, <<>>), Plain(ED, dc)>>)>> :
        dc \in {<<TI>>, <<TC>>} }

XMethods ==
    { MethodRecord(EX, xc, xh, xk, <<>>, <<>>) :
        xc \in {<<TI>>, <<TC>>, <<TZ>>, <<TZ, TC>>},
        xh \in {NoHttp, FeignGetU},
        xk \in {<<>>, <<KafkaOp("Consume", "T")>>} }

CMethods ==
    { MethodRecord(TC, cc, ch, ck, <<>>, <<>>) :
        cc \in {<<>>, <<EX>>},
        ch \in {NoHttp, GetU},
        ck \in {<<>>, <<KafkaOp("Produce", "T")>>} }

\* the index of the workspace with these declarations
EdgeIndex(interface, mx, mc, implements) ==
    IndexParsedFile(NewCodeIndex,
        FileRecord("ws",
                   interface \o
                   <<ClassRecord(<<"X">>, FALSE, <<>>, <<mx>>),
                     ClassRecord(<<"C">>, FALSE, implements, <<mc>>)>>,
                   <<>>))

EdgeIndexes ==
    { EdgeIndex(i, mx, mc, im) :
        i \in IDeclarations, mx \in XMethods, mc \in CMethods,
        im \in {<<>>, <<<<"I">>>>} }

\* the changed methods: Z::z is in no index
EdgeSeedLists == {<<TC>>, <<EX>>, <<TZ>>, <<TI, EX>>}

\* every name a traversal can be entered on
EdgeNames == {TC, TI, EX, ED, TZ}

\* trace_impact is called: the empty graph and the empty visited set
InitEdges ==
    /\ IdleRun
    /\ IdleExtract
    /\ IdleIndex
    /\ IdleStore
    /\ IdleCache
    /\ tindex \in EdgeIndexes
    /\ config \in TraceConfigs
    /\ changed_methods \in EdgeSeedLists
    /\ graph = NewGraph
    /\ stack = <<>>
    /\ vsets = <<{}>>
    /\ tpc = "upstream"
    /\ seed = 1
    /\ entered = [k \in Directions \X EdgeNames |-> 0]

SpecEdges == InitEdges /\ [][NextTrace]_vars

-----------------------------------------------------------------------------
(* SpecStore: runs of the analyzer on one workspace, one after the other,  *)
(* each loading the index or building and saving it (build_index of        *)
(* orchestrator.rs), while the files of the workspace change.              *)

\* the index directory is missing, or holds what an earlier run saved
InitDisk ==
    \/ /\ disk_meta = NoFile
       /\ disk_data = NoFile
       /\ ghost = NoGhost(files, NewCodeIndex)
    \/ \E version \in LeftVersions, path \in LeftPaths :
          LET left == index_workspace(files)
          IN  \E order \in Orders(DOMAIN left.methods) :
                 LET data == serialize_index(left, order)
                 IN  /\ disk_data = data
                     /\ disk_meta = NewMetadata(version, path, files,
                                                FileCount(data),
                                                MethodCount(data))
                     /\ ghost = NoGhost(files, left)

InitStore ==
    /\ IdleRun
    /\ IdleExtract
    /\ IdleIndex
    /\ IdleTrace
    /\ IdleCache
    /\ files = FilesOf({CJava})
    /\ mem = NewCodeIndex
    /\ InitDisk
    /\ pending = NoFile
    /\ spc = "idle"
    /\ loaded = NeverLoaded(files, ghost)
    /\ budget = [runs |-> 0, changes |-> 0]

\* the step leaves the variables of the other models alone
StoreOnly ==
    UNCHANGED <<indexVars, traceVars, cacheVars, runVars, extractVars>>

Changed == [budget EXCEPT !.changes = @ + 1]

\* a file of the workspace gets another mtime
TouchFile ==
    \E p \in DOMAIN files, t \in 0 .. MaxTick :
        /\ budget.changes < MaxChanges
        /\ t # files[p]
        /\ files' = [files EXCEPT ![p] = t]
        /\ budget' = Changed
        /\ StoreOnly
        /\ UNCHANGED <<mem, disk_meta, disk_data, pending, spc, loaded, ghost>>

\* a file is added to the workspace
AddFile ==
    \E p \in Range(StorePaths) \ DOMAIN files, t \in 0 .. MaxTick :
        /\ budget.changes < MaxChanges
        /\ files' = Insert(files, p, t)
        /\ budget' = Changed
        /\ StoreOnly
        /\ UNCHANGED <<mem, disk_meta, disk_data, pending, spc, loaded, ghost>>

\* a file is removed from the workspace
RemoveFile ==
    \E p \in DOMAIN files :
        /\ budget.changes < MaxChanges
        /\ files' = [q \in DOMAIN files \ {p} |-> files[q]]
        /\ budget' = Changed
        /\ StoreOnly
        /\ UNCHANGED <<mem, disk_meta, disk_data, pending, spc, loaded, ghost>>

\* build_index with force_rebuild: clear_index removes the index directory
ClearIndex ==
    /\ spc = "idle"
    /\ budget.runs < MaxRuns
    /\ disk_meta' = NoFile
    /\ disk_data' = NoFile
    /\ ghost' = NoGhost(files, NewCodeIndex)
    /\ spc' = "build"
    /\ budget' = [budget EXCEPT !.runs = @ + 1]
    /\ StoreOnly
    /\ UNCHANGED <<files, mem, pending, loaded>>

\* build_index without force_rebuild: load_index, and the index it returns
\* ends the search; without one the index is built
LoadIndex ==
    \E order \in Orders(IF disk_data.state = "ok"
                        THEN DOMAIN disk_data.methods ELSE {}) :
        LET result == load_index(disk_meta, disk_data, WorkspacePath, files,
                                 order)
        IN  /\ spc = "idle"
            /\ budget.runs < MaxRuns
            /\ loaded' = [kind |-> result.kind, index |-> result.index,
                          meta |-> disk_meta, data |-> disk_data,
                          files |-> files, ghost |-> ghost]
            /\ mem' = IF result.kind = "some" THEN result.index ELSE mem
            /\ spc' = IF result.kind = "some" THEN "idle" ELSE "build"
            /\ budget' = [budget EXCEPT !.runs = @ + 1]
            /\ StoreOnly
            /\ UNCHANGED <<files, disk_meta, disk_data, pending, ghost>>

\* build_index going on with the index it has, without index_workspace
KeepIndex ==
    /\ spc = "build"
    /\ spc' = "built"
    /\ StoreOnly
    /\ UNCHANGED <<files, mem, disk_meta, disk_data, pending, loaded, ghost,
                   budget>>

\* build_index: the workspace is indexed into a new CodeIndex; the workspace
\* holds no configuration file, and the loop of parse_and_associate_configs
\* over them has no iteration
BuildIndex ==
    /\ spc = "build"
    /\ find_config_files(files) = <<>>
    /\ mem' = index_workspace(files)
    /\ spc' = "built"
    /\ ghost' = [ghost EXCEPT !.parsed = files]
    /\ StoreOnly
    /\ UNCHANGED <<files, disk_meta, disk_data, pending, loaded, budget>>

\* save_index, up to save_metadata: the index is serialized, and the
\* metadata with the checksum of the workspace as it is now is written
SaveMetadata ==
    \E order \in Orders(DOMAIN mem.methods) :
        LET serializable == serialize_index(mem, order)
        IN  /\ spc = "built"
            /\ pending' = serializable
            /\ disk_meta' = NewMetadata(INDEX_VERSION, WorkspacePath, files,
                                        FileCount(serializable),
                                        MethodCount(serializable))
            /\ spc' = "meta_written"
            /\ ghost' = [ghost EXCEPT !.metaSave = budget.runs,
                                      !.metaFiles = files,
                                      !.metaFrom = mem]
            /\ StoreOnly
            /\ UNCHANGED <<files, mem, disk_data, loaded, budget>>

\* save_index, save_index_data: the serialized index is written
SaveIndexData ==
    /\ spc = "meta_written"
    /\ disk_data' = pending
    /\ pending' = NoFile
    /\ spc' = "idle"
    /\ ghost' = [ghost EXCEPT !.dataSave = budget.runs, !.dataFrom = mem,
                              !.dataParsed = ghost.parsed]
    /\ StoreOnly
    /\ UNCHANGED <<files, mem, disk_meta, loaded, budget>>

\* the run ends before or while save_metadata writes: the file is as it was
\* or holds a part of the new metadata
SaveMetadataInterrupted ==
    /\ spc = "built"
    /\ \/ UNCHANGED <<disk_meta, ghost>>
       \/ /\ disk_meta' = Garbled
          /\ ghost' = [ghost EXCEPT !.metaSave = budget.runs,
                                    !.metaFiles = files,
                                    !.metaFrom = mem]
    /\ spc' = "idle"
    /\ StoreOnly
    /\ UNCHANGED <<files, mem, disk_data, pending, loaded, budget>>

\* the run ends, or save_index_data fails, after save_metadata: index.json is
\* as it was or holds a part of the new data
SaveIndexDataInterrupted ==
    /\ spc = "meta_written"
    /\ \/ UNCHANGED <<disk_data, ghost>>
       \/ /\ disk_data' = Garbled
          /\ ghost' = [ghost EXCEPT !.dataSave = budget.runs,
                                    !.dataFrom = mem,
                                    !.dataParsed = ghost.parsed]
    /\ pending' = NoFile
    /\ spc' = "idle"
    /\ StoreOnly
    /\ UNCHANGED <<files, mem, disk_meta, loaded, budget>>

NextStore ==
    \/ TouchFile
    \/ AddFile
    \/ RemoveFile
    \/ ClearIndex
    \/ LoadIndex
    \/ BuildIndex
    \/ SaveMetadata
    \/ SaveIndexData
    \/ SaveMetadataInterrupted
    \/ SaveIndexDataInterrupted

SpecStore == InitStore /\ [][NextStore]_vars

-----------------------------------------------------------------------------
(* SpecCache: the workers of one pool call parse_file_with_cache on the    *)
(* paths of a list in which a path may occur more than once.               *)

InitCache ==
    /\ IdleRun
    /\ IdleExtract
    /\ IdleIndex
    /\ IdleTrace
    /\ IdleStore
    /\ requests \in RequestLists
    /\ worker = [w \in Workers |-> Waiting]
    /\ mutex = 0
    /\ cache = EmptyMap
    /\ parse_log = <<>>

NextCache ==
    \E w \in Workers :
        \/ CacheLock(w)
        \/ CacheHit(w)
        \/ CacheMiss(w)
        \/ CacheParse(w)
        \/ CacheReturn(w)

SpecCache == InitCache /\ [][NextCache]_vars

-----------------------------------------------------------------------------
(* SpecRun: one call of run with a workspace and a patch path that exist.  *)

\* run, after the checks of its arguments: a new AnalysisOrchestrator, and
\* analyze has cleared warnings and errors
InitRun ==
    /\ IdleExtract
    /\ IdleIndex
    /\ IdleTrace
    /\ IdleStore
    /\ IdleCache
    /\ args \in RunArgs
    /\ args.diff = "file" => args.patch_files = 1
    /\ rpc = "patches"
    /\ remaining = 0
    /\ warnings = <<>>
    /\ errors = <<>>
    /\ file_changes = 0
    /\ emitted = <<>>
    /\ occurred = <<>>
    /\ analysis = NoResult

NextRun ==
    \/ ParseSinglePatch
    \/ ListPatches
    \/ ParsePatch
    \/ PatchesDone
    \/ LoadOrClear
    \/ CollectSourceFiles
    \/ ParseSourceFile
    \/ SourcesDone
    \/ ParseConfigFile
    \/ SaveIndex
    \/ ExtractChangedMethods
    \/ TraceImpact
    \/ Statistics
    \/ EmitWarnings
    \/ OutputResult

SpecRun == InitRun /\ [][NextRun]_vars

-----------------------------------------------------------------------------
(* SpecExtract: one call of extract_changed_methods, on the file changes   *)
(* of a patch to A.java and B.java, an index with methods of both files,   *)
(* and a workspace where each of the files may be missing or unreadable.   *)

AJava == <<"src", "A.java">>
BJava == <<"src", "B.java">>

ExtractHunkLists ==
    { <<>>, <<Hunk(1, 2)>>, <<Hunk(5, 2)>>, <<Hunk(1, 0), Hunk(9, 1)>> }

ExtractChanges ==
    { FileChange(p, h) : p \in {AJava, BJava}, h \in ExtractHunkLists }

ExtractChangeLists ==
    { <<c>> : c \in ExtractChanges }
        \cup { <<c, d>> : c \in ExtractChanges, d \in ExtractChanges }

\* the fields of MethodInfo that extract_changed_methods reads
Located(file_path, first, last) ==
    [file_path |-> JoinWorkspace(file_path), line_range |-> <<first, last>>]

\* code_index.methods()
ExtractIndexes ==
    { [n \in {"A::f", "A::g", "B::h"} |->
          CASE n = "A::f" -> Located(AJava, 3, 5)
            [] n = "A::g" -> Located(AJava, 7, 8)
            [] n = "B::h" -> Located(BJava, 3, 5)],
      [n \in {"A::g", "B::h"} |->
          CASE n = "A::g" -> Located(AJava, 6, 9)
            [] n = "B::h" -> Located(AJava, 1, 1)] }

\* file_path.exists() and fs::read_to_string(&file_path) of every file
ExtractWorkspaces ==
    [{JoinWorkspace(AJava), JoinWorkspace(BJava)} ->
        {"ok", "missing", "unreadable"}]

InitExtract ==
    /\ IdleIndex
    /\ IdleTrace
    /\ IdleStore
    /\ IdleCache
    /\ IdleRun
    /\ ecm_file_changes \in ExtractChangeLists
    /\ ecm_code_index \in ExtractIndexes
    /\ ecm_files \in ExtractWorkspaces
    /\ ecm_todo = ecm_file_changes
    /\ ecm_pc = "loop"
    /\ ecm_changed_methods = <<>>
    /\ ecm_warnings = <<>>

NextExtract ==
    \/ ExtractSkipFile
    \/ ExtractFromFile
    \/ ExtractReturn

SpecExtract == InitExtract /\ [][NextExtract]_vars

-----------------------------------------------------------------------------
(* C8: forward_calls[a] contains b exactly when reverse_calls[b] contains  *)
(* a, for all names a and b, after any sequence of indexing operations.    *)
C8_ForwardReverseConsistent ==
    \A a \in Names, b \in Names :
        (b \in Range(find_callees(idx, a))) <=> (a \in Range(find_callers(idx, b)))

\* a call edge has been indexed
C8_Witness ==
    /\ QN("I", "m") \in Range(find_callees(idx, QN("X", "x")))
    /\ QN("X", "x") \in Range(find_callers(idx, QN("I", "m")))

\* every query of the index answers the same on ci and cj
SameQueries(ci, cj) ==
    /\ \A n \in Names :
          /\ find_callers(ci, n) = find_callers(cj, n)
          /\ find_callees(ci, n) = find_callees(cj, n)
    /\ \A e \in Endpoints :
          /\ find_http_providers(ci, e) = find_http_providers(cj, e)
          /\ find_http_consumers(ci, e) = find_http_consumers(cj, e)
    /\ \A t \in Topics :
          /\ find_kafka_producers(ci, t) = find_kafka_producers(cj, t)
          /\ find_kafka_consumers(ci, t) = find_kafka_consumers(cj, t)
    /\ \A t \in Tables :
          /\ find_db_readers(ci, t) = find_db_readers(cj, t)
          /\ find_db_writers(ci, t) = find_db_writers(cj, t)
    /\ \A k \in Keys :
          /\ find_redis_readers(ci, k) = find_redis_readers(cj, k)
          /\ find_redis_writers(ci, k) = find_redis_writers(cj, k)

\* the last two operations were index_method on the same record
RepeatedInsert ==
    /\ Len(log) >= 2
    /\ log[Len(log)].op = "index_method"
    /\ log[Len(log)] = log[Len(log) - 1]

(* C9: adding a MethodInfo record that was just added leaves every query   *)
(* result as it was, so that N identical inserts answer as one insert.     *)
C9_IdenticalInsertIdempotent ==
    RepeatedInsert => SameQueries(idx, idxPrev)

\* the distinct classes recorded as implementations of an interface
ImplementationClasses(ci, interface_name) ==
    Range(find_interface_implementations(ci, interface_name))

(* C10: resolve_interface_call on I::m gives C::m when I is recorded with  *)
(* exactly one implementation class C, and gives I::m back when I has no   *)
(* or more than one implementation class.                                  *)
C10_ResolveUniqueImplementation ==
    \A i \in ClassNames :
        LET target == Qualify(i, "m")
            impls  == ImplementationClasses(idx, i)
        IN  IF Cardinality(impls) = 1
            THEN \A c \in impls :
                     resolve_interface_call(idx, target) = Qualify(c, "m")
            ELSE resolve_interface_call(idx, target) = target

(* C1: during one trace_impact call every method is entered at most once   *)
(* in the upstream direction and at most once in the downstream direction, *)
(* also across cross-service hops and with several changed methods.        *)
C1_EnteredAtMostOnce ==
    \A k \in DOMAIN entered : entered[k] <= 1

\* the activations on the stack, one per method entered and one arriving
StackBounded == Len(stack) <= Cardinality(TraceNames) + 1

(* C2: trace_impact terminates, and with a finite recursion depth, for     *)
(* every index, configuration and list of changed methods, with cyclic     *)
(* calls and cyclic resource relations among them.                         *)
C2_TraceTerminates ==
    /\ []StackBounded
    /\ <>(tpc = "done")

\* a trace that has ended after following a cycle of two Kafka topics
C2_Witness ==
    /\ tpc = "done"
    /\ config.trace_cross_service
    /\ entered[<<"down", TB>>] >= 1
    /\ TB \in Range(find_kafka_consumers(tindex, "T"))
    /\ TA \in Range(find_kafka_producers(tindex, "T"))
    /\ TA \in Range(find_kafka_consumers(tindex, "U"))
    /\ TB \in Range(find_kafka_producers(tindex, "U"))

-----------------------------------------------------------------------------
(* The claims about the store.  loaded keeps, with the result of the last  *)
(* load_index, the files it read and the workspace as it was then.         *)

\* the same elements, each as often
SameBag(s, t) ==
    \A x \in Range(s) \cup Range(t) : Count(s, x) = Count(t, x)

StoreNames == {QN("I", "m"), QN("C", "m"), QN("G", "g")}
StoreClasses == {<<"I">>, <<"C">>, <<"G">>}
ConfigKeys == {"app.url"}

\* every query of the index answers the same on ci and cj, up to the order
\* within a sequence
SameAnswers(ci, cj) ==
    /\ \A n \in StoreNames :
          /\ find_method(ci, n) = find_method(cj, n)
          /\ SameBag(find_callers(ci, n), find_callers(cj, n))
          /\ SameBag(find_callees(ci, n), find_callees(cj, n))
    /\ \A e \in Endpoints :
          /\ find_http_providers(ci, e) = find_http_providers(cj, e)
          /\ SameBag(find_http_consumers(ci, e), find_http_consumers(cj, e))
    /\ \A t \in Topics :
          /\ SameBag(find_kafka_producers(ci, t), find_kafka_producers(cj, t))
          /\ SameBag(find_kafka_consumers(ci, t), find_kafka_consumers(cj, t))
    /\ \A t \in Tables :
          /\ SameBag(find_db_readers(ci, t), find_db_readers(cj, t))
          /\ SameBag(find_db_writers(ci, t), find_db_writers(cj, t))
    /\ \A k \in Keys :
          /\ SameBag(find_redis_readers(ci, k), find_redis_readers(cj, k))
          /\ SameBag(find_redis_writers(ci, k), find_redis_writers(cj, k))
    /\ \A c \in StoreClasses :
          /\ SameBag(find_interface_implementations(ci, c),
                     find_interface_implementations(cj, c))
          /\ SameBag(find_class_interfaces(ci, c), find_class_interfaces(cj, c))
    /\ \A k \in ConfigKeys :
          SameBag(find_config_associations(ci, k),
                  find_config_associations(cj, k))

\* the last load_index returned what one save_index of an earlier run wrote
\* in full, in a workspace that has not changed since
LoadedAfterSave ==
    /\ loaded.kind = "some"
    /\ loaded.ghost.metaSave > 0
    /\ loaded.ghost.metaSave = loaded.ghost.dataSave
    /\ loaded.files = loaded.ghost.metaFiles

(* C3: after save_index(idx) and load_index on an unchanged workspace, the *)
(* loaded index answers every query operation as idx does, up to the order *)
(* within a sequence.                                                      *)
C3_SaveLoadSameAnswers ==
    LoadedAfterSave => SameAnswers(loaded.index, loaded.ghost.dataFrom)

(* C4: load_index never accepts a payload other than the one the metadata  *)
(* was written for, also after a save_index that was interrupted or failed *)
(* between its two file writes.                                            *)
C4_LoadedPayloadOfMetadata ==
    loaded.kind = "some" =>
        loaded.data.methods = loaded.ghost.metaFrom.methods

\* the three conditions on the stored metadata: its major version, its
\* workspace path and its checksum are the current ones
StoredValid(l) ==
    /\ l.meta.state = "ok"
    /\ Major(l.meta.version) = Major(INDEX_VERSION)
    /\ l.meta.workspace_path = WorkspacePath
    /\ l.meta.checksum = calculate_checksum(WorkspacePath, l.files)

(* C5, as stated: load_index accepts the on-disk index if and only if the  *)
(* stored major version, workspace path and checksum are the current ones. *)
C5_AcceptedIffValid ==
    loaded.kind # "never" => (loaded.kind = "some" <=> StoredValid(loaded))

(* C5, amended: load_index accepts the on-disk index if and only if the    *)
(* stored major version, workspace path and checksum are the current ones  *)
(* and index.json is there and parses.                                     *)
C5_AcceptedIffValidAndReadable ==
    loaded.kind # "never" =>
        (loaded.kind = "some" <=>
            (StoredValid(loaded) /\ loaded.data.state = "ok"))

\* an index saved by another minor version has been accepted
C5_Witness ==
    /\ loaded.kind = "some"
    /\ loaded.meta.version # INDEX_VERSION
    /\ StoredValid(loaded)

\* the source files the walk reaches, with their mtimes in ticks
SourceTicks(fs) ==
    {<<p, fs[p]>> : p \in {q \in DOMAIN fs : Reached(q) /\ is_source_file(q)}}

\* the source files the walk reaches, with their mtimes in whole seconds
SourceSeconds(fs) ==
    {<<p, fs[p] \div TicksPerSec>> :
        p \in {q \in DOMAIN fs : Reached(q) /\ is_source_file(q)}}

(* C6, as stated: once a source file is added, removed or modified after   *)
(* save_index, load_index does not accept the index.                       *)
C6_AnyChangeInvalidates ==
    loaded.kind = "some" =>
        SourceTicks(loaded.files) = SourceTicks(loaded.ghost.metaFiles)

(* C6, amended: once a source file outside the skipped directories is      *)
(* added or removed after save_index, or its mtime changes to another      *)
(* whole second, load_index does not accept the index.                     *)
C6_ChangeOfSecondsInvalidates ==
    loaded.kind = "some" =>
        SourceSeconds(loaded.files) = SourceSeconds(loaded.ghost.metaFiles)

\* load_index has reported an index of this version and workspace, saved in
\* full by an earlier run, as not valid after a change of the source files
C6_Witness ==
    /\ loaded.kind = "none"
    /\ loaded.meta.state = "ok"
    /\ loaded.data.state = "ok"
    /\ loaded.meta.version = INDEX_VERSION
    /\ loaded.meta.workspace_path = WorkspacePath
    /\ loaded.ghost.metaSave > 0
    /\ loaded.ghost.metaSave = loaded.ghost.dataSave
    /\ SourceSeconds(loaded.files) # SourceSeconds(loaded.ghost.metaFiles)

-----------------------------------------------------------------------------
(* The claims about the parse cache.                                       *)

\* the calls of get_or_parse on path that invoked parse_fn
ParseCalls(path) ==
    {i \in DOMAIN parse_log :
        parse_log[i].path = path /\ parse_log[i].event # "hit"}

(* C7, as stated: the get_or_parse calls of the workers on one path invoke *)
(* parse_fn at most once in total, under every interleaving.               *)
C7_ParseFnAtMostOnce ==
    \A path \in CachePaths : Cardinality(ParseCalls(path)) <= 1

(* C7, amended: once parse_fn has succeeded on a path, every later         *)
(* get_or_parse call on that path, by any worker, is answered from the     *)
(* cache, so parse_fn succeeds at most once per path; a parse_fn call that *)
(* fails is not cached and is repeated by the next call.                   *)
C7_ParsedAtMostOnce ==
    \A i, j \in DOMAIN parse_log :
        (/\ i < j
         /\ parse_log[i].path = parse_log[j].path
         /\ parse_log[i].event = "parsed") => parse_log[j].event = "hit"

\* two workers have called get_or_parse on one path: the first parsed it,
\* the second was answered from the cache
C7_Witness ==
    \E i, j \in DOMAIN parse_log :
        /\ i < j
        /\ parse_log[i].path = parse_log[j].path
        /\ parse_log[i].by # parse_log[j].by
        /\ parse_log[i].event = "parsed"
        /\ parse_log[j].event = "hit"

-----------------------------------------------------------------------------
(* The claims about the graph that trace_impact returns.                   *)

Done == tpc = "done"

HasNode(id) == id \in Range(graph.nodes)

HasEdge(from, to, edge_type, direction) ==
    ImpactEdge(from, to, edge_type, direction) \in Range(graph.edges)

Indexed(method) == find_method(tindex, method) # NoMethod

EnteredUp(method) == entered[<<"up", method>>] >= 1
EnteredDown(method) == entered[<<"down", method>>] >= 1

\* the method was inserted into a visited set
EnteredAny(method) == EnteredUp(method) \/ EnteredDown(method)

(* C11: once trace_impact has traced upstream from a method C::m, every    *)
(* indexed caller X of C::m, and of I::m for every interface I of the      *)
(* class C, is a node of the graph with a MethodCall edge X -> C::m.       *)
C11_InterfaceCallersAdded ==
    Done =>
        \A m \in {TC, EX} :
            EnteredUp(m) =>
                \A x \in Range(AllCallers(tindex, m)) :
                    Indexed(x) =>
                        /\ HasNode(MethodId(x))
                        /\ HasEdge(MethodId(x), MethodId(m),
                                   "MethodCall", "Upstream")

\* trace_cross_service has run on the method
Expanded(method) ==
    config.trace_cross_service /\ EnteredAny(method) /\ Indexed(method)

Annotation(method) == find_method(tindex, method).http_annotations

HttpClient(method) ==
    /\ Indexed(method)
    /\ Annotation(method) # NoHttp
    /\ Annotation(method).is_feign_client

HttpProvider(method) ==
    /\ Indexed(method)
    /\ Annotation(method) # NoHttp
    /\ ~Annotation(method).is_feign_client

EndpointId(method) ==
    HttpId(Annotation(method).method, Annotation(method).path)

Providers(method) ==
    Range(find_http_providers(tindex, Endpoint(Annotation(method))))

Consumers(method) ==
    Range(find_http_consumers(tindex, Endpoint(Annotation(method))))

\* an edge with either direction label
Linked(from, to, edge_type) ==
    \E direction \in {"Upstream", "Downstream"} :
        HasEdge(from, to, edge_type, direction)

\* a traversal has just been called across a resource: its activation has
\* not yet looked at the visited set it was handed
HopFrame ==
    /\ Len(stack) >= 2
    /\ Top.pc = "enter"
    /\ Top.owns

Below == stack[Len(stack) - 1]

\* the visited set of the called traversal is a copy of the caller's, the
\* called method is not in it, and the traversal starts at depth 0
HandedCopy ==
    /\ vsets[Top.v] = vsets[Below.v]
    /\ Top.method \notin vsets[Top.v]
    /\ Top.depth = 0

\* the visited set of the called traversal holds no method visited before
HandedFresh == vsets[Top.v] \cap vsets[Below.v] = {}

\* the downstream traversal of a provider is called from its Feign client
ArrivedAtProvider ==
    /\ HopFrame
    /\ Top.fn = "down"
    /\ HttpClient(Below.method)
    /\ Top.method \in Providers(Below.method)

(* C12, as stated: for an HTTP client method m that resource expansion     *)
(* reaches, the graph gets the edge m -> endpoint (HttpCall, Downstream)   *)
(* and the edge endpoint -> p for every provider p, and p is traced        *)
(* downstream with a visited set that holds no method visited before.      *)
C12_ProvidersTracedFresh ==
    /\ Done =>
          \A m \in EdgeNames :
              (Expanded(m) /\ HttpClient(m)) =>
                  /\ HasEdge(MethodId(m), EndpointId(m), "HttpCall",
                             "Downstream")
                  /\ \A p \in Providers(m) :
                        /\ Linked(EndpointId(m), MethodId(p), "HttpCall")
                        /\ EnteredDown(p)
    /\ ArrivedAtProvider => HandedFresh

(* C12, amended: for an HTTP client method m that resource expansion       *)
(* reaches, the graph gets the endpoint and the edge m -> endpoint         *)
(* (HttpCall, Downstream); every provider p that is not in the visited set *)
(* gets the edge endpoint -> p (HttpCall, Downstream) and is traced        *)
(* downstream from depth 0 with a copy of the visited set; a provider that *)
(* is in the visited set is skipped.                                       *)
C12_ProvidersTracedWithCopy ==
    /\ Done =>
          \A m \in EdgeNames :
              (Expanded(m) /\ HttpClient(m)) =>
                  /\ HasNode(EndpointId(m))
                  /\ HasEdge(MethodId(m), EndpointId(m), "HttpCall",
                             "Downstream")
                  /\ \A p \in Providers(m) :
                        /\ EnteredAny(p)
                        /\ HasEdge(EndpointId(m), MethodId(p), "HttpCall",
                                   "Downstream") => EnteredDown(p)
    /\ ArrivedAtProvider =>
          /\ HandedCopy
          /\ HasNode(MethodId(Top.method))
          /\ HasEdge(EndpointId(Below.method), MethodId(Top.method),
                     "HttpCall", "Downstream")

\* the trace from the Feign client X::x has crossed GET /u to its provider
\* C::m and has traced C::m downstream
C12_Witness ==
    /\ Done
    /\ changed_methods = <<EX>>
    /\ HttpClient(EX)
    /\ HasEdge(MethodId(EX), HttpId("GET", "/u"), "HttpCall", "Downstream")
    /\ HasEdge(HttpId("GET", "/u"), MethodId(TC), "HttpCall", "Downstream")
    /\ EnteredDown(TC)


\* the upstream traversal of a consumer is called from the provider
ArrivedAtConsumer ==
    /\ HopFrame
    /\ Top.fn = "up"
    /\ HttpProvider(Below.method)
    /\ Top.method \in Consumers(Below.method)

(* C13, as stated: for an HTTP provider method m that resource expansion   *)
(* reaches, the graph gets the edge endpoint -> m (HttpCall, Upstream) and *)
(* the edge c -> endpoint for every consumer c of the endpoint, and c is   *)
(* traced upstream.                                                        *)
C13_ConsumersTracedUpstream ==
    Done =>
        \A m \in EdgeNames :
            (Expanded(m) /\ HttpProvider(m)) =>
                /\ HasEdge(EndpointId(m), MethodId(m), "HttpCall", "Upstream")
                /\ \A c \in Consumers(m) :
                      /\ Linked(MethodId(c), EndpointId(m), "HttpCall")
                      /\ EnteredUp(c)

(* C13, amended: for an HTTP provider method m that resource expansion     *)
(* reaches, the graph gets the endpoint and the edge endpoint -> m         *)
(* (HttpCall, Upstream); every consumer c that is not in the visited set   *)
(* gets the edge c -> endpoint (HttpCall, Upstream) and is traced upstream *)
(* from depth 0 with a copy of the visited set; a consumer that is in the  *)
(* visited set is skipped.                                                 *)
C13_UnvisitedConsumersTracedUpstream ==
    /\ Done =>
          \A m \in EdgeNames :
              (Expanded(m) /\ HttpProvider(m)) =>
                  /\ HasNode(EndpointId(m))
                  /\ HasEdge(EndpointId(m), MethodId(m), "HttpCall",
                             "Upstream")
                  /\ \A c \in Consumers(m) :
                        /\ EnteredAny(c)
                        /\ HasEdge(MethodId(c), EndpointId(m), "HttpCall",
                                   "Upstream") => EnteredUp(c)
    /\ ArrivedAtConsumer =>
          /\ HandedCopy
          /\ HasNode(MethodId(Top.method))
          /\ HasEdge(MethodId(Top.method), EndpointId(Below.method),
                     "HttpCall", "Upstream")

\* the trace from the provider C::m of GET /u has crossed the endpoint to
\* its consumer X::x and has traced X::x upstream
C13_Witness ==
    /\ Done
    /\ changed_methods = <<TC>>
    /\ HttpProvider(TC)
    /\ HasEdge(HttpId("GET", "/u"), MethodId(TC), "HttpCall", "Upstream")
    /\ HasEdge(MethodId(EX), HttpId("GET", "/u"), "HttpCall", "Upstream")
    /\ EnteredUp(EX)

KafkaOperations(method) ==
    IF Indexed(method)
    THEN Range(find_method(tindex, method).kafka_operations) ELSE {}

Produced(method) ==
    { op.topic : op \in { o \in KafkaOperations(method) :
                            o.operation_type = "Produce" } }

Consumed(method) ==
    { op.topic : op \in { o \in KafkaOperations(method) :
                            o.operation_type = "Consume" } }

KafkaConsumers(topic) == Range(find_kafka_consumers(tindex, topic))
KafkaProducers(topic) == Range(find_kafka_producers(tindex, topic))

\* the downstream traversal of a consumer is called from a producer
ArrivedAtKafkaConsumer ==
    /\ HopFrame
    /\ Top.fn = "down"
    /\ \E t \in Produced(Below.method) : Top.method \in KafkaConsumers(t)
    /\ ~(HttpClient(Below.method) /\ Top.method \in Providers(Below.method))

\* the upstream traversal of a producer is called from a consumer
ArrivedAtKafkaProducer ==
    /\ HopFrame
    /\ Top.fn = "up"
    /\ \E t \in Consumed(Below.method) : Top.method \in KafkaProducers(t)
    /\ ~(HttpProvider(Below.method) /\ Top.method \in Consumers(Below.method))

(* C14, as stated: with cross-service tracing enabled, for a traced method *)
(* m that produces topic T the graph has the node kafka:T, the edge        *)
(* m -> kafka:T and the edge kafka:T -> c for every consumer c of T, and c *)
(* is traced downstream; for a traced method that consumes T the graph has *)
(* the edge kafka:T -> m and the edge q -> kafka:T for every producer q of *)
(* T, and q is traced upstream.                                            *)
C14_KafkaCounterpartsTraced ==
    Done =>
        \A m \in EdgeNames :
            Expanded(m) =>
                /\ \A t \in Produced(m) :
                      /\ HasNode(KafkaId(t))
                      /\ Linked(MethodId(m), KafkaId(t), "KafkaProduceConsume")
                      /\ \A c \in KafkaConsumers(t) :
                            /\ Linked(KafkaId(t), MethodId(c),
                                      "KafkaProduceConsume")
                            /\ EnteredDown(c)
                /\ \A t \in Consumed(m) :
                      /\ HasNode(KafkaId(t))
                      /\ Linked(KafkaId(t), MethodId(m), "KafkaProduceConsume")
                      /\ \A q \in KafkaProducers(t) :
                            /\ Linked(MethodId(q), KafkaId(t),
                                      "KafkaProduceConsume")
                            /\ EnteredUp(q)

(* C14, amended: with cross-service tracing enabled, for a traced method m *)
(* that produces topic T the graph has the node kafka:T and the edge       *)
(* m -> kafka:T (Downstream); every consumer c of T that is not in the     *)
(* visited set gets the edge kafka:T -> c (Downstream) and is traced       *)
(* downstream from depth 0 with a copy of the visited set.  For a traced   *)
(* method that consumes T the graph has the edge kafka:T -> m (Upstream);  *)
(* every producer q of T that is not in the visited set gets the edge      *)
(* q -> kafka:T (Upstream) and is traced upstream in the same way.  A      *)
(* counterpart that is in the visited set is skipped.                      *)
C14_UnvisitedKafkaCounterpartsTraced ==
    /\ Done =>
          \A m \in EdgeNames :
              Expanded(m) =>
                  /\ \A t \in Produced(m) :
                        /\ HasNode(KafkaId(t))
                        /\ HasEdge(MethodId(m), KafkaId(t),
                                   "KafkaProduceConsume", "Downstream")
                        /\ \A c \in KafkaConsumers(t) :
                              /\ EnteredAny(c)
                              /\ HasEdge(KafkaId(t), MethodId(c),
                                         "KafkaProduceConsume", "Downstream")
                                   => EnteredDown(c)
                  /\ \A t \in Consumed(m) :
                        /\ HasNode(KafkaId(t))
                        /\ HasEdge(KafkaId(t), MethodId(m),
                                   "KafkaProduceConsume", "Upstream")
                        /\ \A q \in KafkaProducers(t) :
                              /\ EnteredAny(q)
                              /\ HasEdge(MethodId(q), KafkaId(t),
                                         "KafkaProduceConsume", "Upstream")
                                   => EnteredUp(q)
    /\ ArrivedAtKafkaConsumer =>
          /\ HandedCopy
          /\ \E t \in Produced(Below.method) :
                HasEdge(KafkaId(t), MethodId(Top.method),
                        "KafkaProduceConsume", "Downstream")
    /\ ArrivedAtKafkaProducer =>
          /\ HandedCopy
          /\ \E t \in Consumed(Below.method) :
                HasEdge(MethodId(Top.method), KafkaId(t),
                        "KafkaProduceConsume", "Upstream")

\* the trace from the producer C::m of topic T has crossed the topic to its
\* consumer X::x and has traced X::x downstream
C14_Witness ==
    /\ Done
    /\ changed_methods = <<TC>>
    /\ "T" \in Produced(TC)
    /\ HasEdge(MethodId(TC), KafkaId("T"), "KafkaProduceConsume", "Downstream")
    /\ HasEdge(KafkaId("T"), MethodId(EX), "KafkaProduceConsume", "Downstream")
    /\ EnteredDown(EX)


Seeds == Range(changed_methods)

Touching(id) == { e \in Range(graph.edges) : e.from = id \/ e.to = id }

\* the names under which trace_method_upstream adds the callers of a method
ResolvedCallers(method) ==
    { resolve_interface_call(tindex, x) : x \in Range(AllCallers(tindex, method)) }

(* C15, as stated: a seed method that is not in the methods relation of    *)
(* the index is, when trace_impact has returned, a node of the graph with  *)
(* no incoming and no outgoing edge.                                       *)
C15_UnindexedSeedIsolated ==
    Done =>
        \A s \in Seeds :
            ~Indexed(s) =>
                /\ HasNode(MethodId(s))
                /\ Touching(MethodId(s)) = {}

(* C15, amended: a seed method that is not in the methods relation of the  *)
(* index is, when trace_impact has returned, a node of the graph with no   *)
(* outgoing edge; its incoming edges are MethodCall edges (Upstream) from  *)
(* the indexed methods recorded as its callers, so the node is isolated    *)
(* when no indexed method calls the seed, when upstream tracing is         *)
(* disabled, or when max_depth is 0.                                       *)
C15_UnindexedSeedOnlyCalled ==
    Done =>
        \A s \in Seeds :
            ~Indexed(s) =>
                /\ HasNode(MethodId(s))
                /\ \A e \in Touching(MethodId(s)) :
                      /\ e.to = MethodId(s)
                      /\ e.edge_type = "MethodCall"
                      /\ e.direction = "Upstream"
                      /\ \E x \in ResolvedCallers(s) :
                            Indexed(x) /\ e.from = MethodId(x)
                /\ (ResolvedCallers(s) = {} \/ ~config.trace_upstream
                        \/ config.max_depth = 0)
                       => Touching(MethodId(s)) = {}

\* trace_impact has returned for the seed Z::z, which no file declares, and
\* the graph holds Z::z
C15_Witness ==
    /\ Done
    /\ changed_methods = <<TZ>>
    /\ ~Indexed(TZ)
    /\ HasNode(MethodId(TZ))


\* load_index would return an index from what is on disk
Loadable(order) ==
    load_index(disk_meta, disk_data, WorkspacePath, files, order).kind = "some"

DataOrders ==
    Orders(IF disk_data.state = "ok" THEN DOMAIN disk_data.methods ELSE {})

\* a step with which build_index starts
RunStarts == budget'.runs = budget.runs + 1

\* the step leaves the index directory as it is
DiskKept == disk_meta' = disk_meta /\ disk_data' = disk_data

\* build_index returns what load_index read from the disk
UsesDiskIndex ==
    /\ spc' = "idle"
    /\ DiskKept
    /\ \E order \in DataOrders :
          /\ Loadable(order)
          /\ mem' = load_index(disk_meta, disk_data, WorkspacePath, files,
                               order).index

\* build_index goes on to build: nothing was loaded
GoesToBuild == spc' = "build" /\ mem' = mem

\* --rebuild: the index directory is cleared before anything is read
Rebuilds == disk_meta' = NoFile /\ disk_data' = NoFile /\ loaded' = loaded

BuildIndexStep ==
    /\ RunStarts =>
          /\ UsesDiskIndex \/ GoesToBuild
          /\ UsesDiskIndex => ~Rebuilds
          /\ GoesToBuild => (Rebuilds \/ (DiskKept /\ \A order \in DataOrders :
                                                        ~Loadable(order)))
          /\ (DiskKept /\ \E order \in DataOrders : Loadable(order))
                => UsesDiskIndex
    /\ (spc = "build" /\ spc' # spc) =>
          /\ spc' = "built"
          /\ mem' = index_workspace(files)
          /\ DiskKept
    /\ (spc \in {"built", "meta_written"} /\ spc' # spc) => mem' = mem
    /\ (spc = "meta_written" /\ spc' = "idle" /\ disk_data' # disk_data
            /\ disk_data' # Garbled) =>
          /\ \E order \in Orders(DOMAIN mem.methods) :
                disk_data' = serialize_index(mem, order)
          /\ disk_meta.state = "ok"
          /\ disk_meta.version = INDEX_VERSION
          /\ disk_meta.workspace_path = WorkspacePath

(* C16: build_index returns the index on disk only when it was not told to *)
(* rebuild and load_index returns an index; when load_index returns none   *)
(* (index missing, or metadata not valid) or an error (a file that does    *)
(* not parse), or when it was told to rebuild, the index is built from the *)
(* workspace with index_workspace, save_index is called on it, which       *)
(* writes the serialized built index and its metadata, and the run goes on *)
(* with the built index.                                                   *)
C16_LoadOrBuild == [][BuildIndexStep]_vars

\* the first run found an index it could not load, built one and saved it
C16_Witness ==
    /\ budget.runs = 1
    /\ spc = "idle"
    /\ loaded.kind \in {"none", "err"}
    /\ loaded.meta # NoFile
    /\ mem = index_workspace(files)
    /\ ghost.dataSave = 1
    /\ \E order \in Orders(DOMAIN mem.methods) :
          disk_data = serialize_index(mem, order)


\* the recoverable failures: of a patch, a source file, a configuration
\* file, and of loading the index
Recoverable == {"patch", "source", "config", "load"}

(* C17: when a patch file of the patch directory failed to parse (and the *)
(* workspace could be walked), the run goes to its end and returns a       *)
(* result, whose warnings hold one warning for every patch that failed.    *)
C17_FailedPatchSkipped ==
    (/\ RunEnded
     /\ args.diff = "dir"
     /\ "patch" \in Range(occurred)
     /\ "index" \notin Range(occurred))
        => /\ rpc = "done"
           /\ analysis # NoResult
           /\ Count(analysis.warnings, "patch")
                 = Count(occurred, "patch")

\* the lines of the graph output
GraphLines == {i \in DOMAIN emitted : emitted[i].about = "graph"}

(* C18: every recoverable failure (of a patch, a source file, a            *)
(* configuration file, of loading the index) is recorded in the warnings   *)
(* or the errors of the orchestrator, no diagnostic of such a failure is   *)
(* written while analyze runs, and none is written between two lines of    *)
(* the graph output.                                                       *)
C18_DiagnosticsAfterRun ==
    /\ \A kind \in Recoverable :
          Count(occurred, kind) <= Count(warnings \o errors, kind)
    /\ \A i \in DOMAIN emitted :
          emitted[i].about \in Recoverable =>
              emitted[i].step \notin AnalyzeSteps
    /\ \A i \in GraphLines, j \in GraphLines :
          \A k \in i .. j : k \in GraphLines


(* C19: a MethodInfo that is in the index under its qualified name is      *)
(* still there, unchanged, after the next indexing operation.              *)
C19_RecordsNeverReplaced ==
    \A name \in DOMAIN idxPrev.methods :
        /\ name \in DOMAIN idx.methods
        /\ idx.methods[name] = idxPrev.methods[name]


\* the get_or_parse calls with this outcome
CallsWith(event) == {i \in DOMAIN parse_log : parse_log[i].event = event}

(* C20: a failed parse is not cached: the cache holds exactly the paths    *)
(* that parse_fn has parsed, so a path whose parse failed is absent and    *)
(* the failure adds no entry; a call is answered from the cache only after *)
(* parse_fn has succeeded on its path, so the call that follows a failure  *)
(* invokes parse_fn again.                                                 *)
C20_FailedParseNotCached ==
    /\ DOMAIN cache = {parse_log[i].path : i \in CallsWith("parsed")}
    /\ \A j \in CallsWith("hit") :
          \E i \in CallsWith("parsed") :
              i < j /\ parse_log[i].path = parse_log[j].path

\* parse_fn has failed on a path, the path is not in the cache, and the
\* next get_or_parse on the path has invoked parse_fn again
C20_Witness ==
    \E i \in CallsWith("failed"), j \in CallsWith("failed") :
        /\ i < j
        /\ parse_log[i].path = parse_log[j].path
        /\ parse_log[i].path \notin DOMAIN cache


\* the method is indexed with an HTTP annotation or a Kafka operation
HasResources(method) ==
    /\ Indexed(method)
    /\ (Annotation(method) # NoHttp \/ KafkaOperations(method) # {})

(* C22: with trace_cross_service = false every node of the graph is a      *)
(* Method node and every edge is a MethodCall edge, whatever resources the *)
(* indexed methods have and whatever the seeds are.                        *)
C22_OnlyMethodCalls ==
    ~config.trace_cross_service =>
        /\ \A n \in Range(graph.nodes) : n.kind = "method"
        /\ \A e \in Range(graph.edges) : e.edge_type = "MethodCall"

\* trace_impact has returned with cross-service tracing off: a method with
\* an HTTP annotation or a Kafka operation was traced, and the graph has a
\* call edge
C22_Witness ==
    /\ Done
    /\ ~config.trace_cross_service
    /\ graph.edges # <<>>
    /\ \E m \in EdgeNames : EnteredAny(m) /\ HasResources(m)

(* C24: with max_depth = 0 the graph never has an edge or a node that is   *)
(* not a seed, and when trace_impact has returned its nodes are exactly    *)
(* the seed methods, for any index and any setting of trace_upstream,      *)
(* trace_downstream and trace_cross_service.                               *)
C24_ZeroDepthOnlySeeds ==
    config.max_depth = 0 =>
        /\ graph.edges = <<>>
        /\ Range(graph.nodes) \subseteq {MethodId(s) : s \in Seeds}
        /\ Done => Range(graph.nodes) = {MethodId(s) : s \in Seeds}

\* trace_impact has returned with max_depth = 0 for a seed that has an
\* indexed caller, a callee and a resource
C24_Witness ==
    /\ Done
    /\ config.max_depth = 0
    /\ config.trace_cross_service
    /\ changed_methods = <<TC>>
    /\ HasResources(TC)
    /\ EX \in Range(find_callers(tindex, TC))
    /\ find_callees(tindex, TC) # <<>>
    /\ HasNode(MethodId(TC))


(* C25: after any sequence of indexing operations, for every interface I   *)
(* in interface_implementations and every class C listed for I,            *)
(* class_interfaces[C] contains I.                                         *)
C25_ImplementationsInverse ==
    \A i \in DOMAIN idx.interface_implementations :
        \A c \in Range(find_interface_implementations(idx, i)) :
            i \in Range(find_class_interfaces(idx, c))

\* a class that implements an interface has been indexed
C25_Witness ==
    /\ <<"C">> \in Range(find_interface_implementations(idx, <<"I">>))
    /\ <<"D">> \in Range(find_interface_implementations(idx, <<"I">>))
    /\ <<"I">> \in Range(find_class_interfaces(idx, <<"D">>))


\* a seed that is an HTTP provider is traced with cross-service tracing on
\* and a depth limit that lets the traversal enter it
ProviderSeeds ==
    { s \in Seeds : /\ HttpProvider(s)
                    /\ config.trace_cross_service
                    /\ config.max_depth >= 1 }

Started(fn) ==
    \/ \E i \in DOMAIN stack : stack[i].fn = fn
    \/ \E m \in EdgeNames : entered[<<fn, m>>] >= 1

(* C28: with trace_upstream = false the graph has no edge with direction   *)
(* Upstream and no upstream traversal is started; with trace_downstream =  *)
(* false it has no edge with direction Downstream and no downstream        *)
(* traversal is started.                                                   *)
C28_DirectionsRespected ==
    /\ ~config.trace_upstream =>
          /\ \A e \in Range(graph.edges) : e.direction # "Upstream"
          /\ ~Started("up")
    /\ ~config.trace_downstream =>
          /\ \A e \in Range(graph.edges) : e.direction # "Downstream"
          /\ ~Started("down")


\* the method is a changed method or a method of the index
Known(id) == id.kind = "method" => (id.name \in Seeds \/ Indexed(id.name))

\* the methods of a list of calls that are indexed once resolved
Found(calls) ==
    { r \in { resolve_interface_call(tindex, c) : c \in Range(calls) } :
        Indexed(r) }

CallStep(from, fn) ==
    { r \in EdgeNames :
        /\ Indexed(r)
        /\ resolve_interface_call(tindex, r) = r
        /\ \E m \in from :
              /\ (m \in Seeds \/ Indexed(m))
              /\ r \in Range(IF fn = "down" THEN find_callees(tindex, m)
                             ELSE find_callers(tindex, m)) }

RECURSIVE Within(_, _, _)
\* the methods reached from the set by a path of at most n call edges
Within(from, fn, n) ==
    IF n = 0 THEN from
    ELSE Within(from \cup CallStep(from, fn), fn, n - 1)

\* the direction is traced
Traced(fn) ==
    IF fn = "up" THEN config.trace_upstream ELSE config.trace_downstream

(* C27: every indexed method within max_depth call edges of a seed, in a   *)
(* direction that is traced, is a node of the graph trace_impact returns.  *)
C27_ReachableWithinDepth ==
    Done =>
        \A fn \in Directions :
            Traced(fn) =>
                \A s \in Seeds :
                    \A r \in Within({s}, fn, config.max_depth) :
                        HasNode(MethodId(r))


(* C30: whatever patch files parse or fail, the statistics of an analyze   *)
(* run are computed without underflow or panic: the run does not panic,    *)
(* and in a returned result failed_files does not exceed total_files and   *)
(* parsed_files + failed_files = total_files.                              *)
C30_StatisticsSound ==
    /\ rpc # "panicked"
    /\ analysis # NoResult =>
          /\ analysis.failed_files <= analysis.total_files
          /\ analysis.parsed_files + analysis.failed_files
                = analysis.total_files


\* the index load_index returned was saved, metadata and data, by one run
SavedByOneRun ==
    /\ loaded.kind = "some"
    /\ loaded.ghost.dataSave # 0
    /\ loaded.ghost.metaSave = loaded.ghost.dataSave

(* C29: an index that load_index accepts was built from the source files   *)
(* as they were at the modification times recorded in its checksum: the    *)
(* checksum of the metadata is the checksum of the workspace as            *)
(* index_workspace parsed it.                                              *)
C29_AcceptedIndexParsedAtChecksum ==
    SavedByOneRun =>
        loaded.meta.checksum
            = calculate_checksum(WorkspacePath, loaded.ghost.dataParsed)


\* the lines of a range
Lines(range) == range[1] .. range[2]

\* some hunk range of the file change intersects the line range of the method
HunkIntersects(file_change, name) ==
    \E i \in DOMAIN file_change.hunks :
        LET h == file_change.hunks[i]
        IN  Lines(<<h.new_start, h.new_start + h.new_lines>>)
                \cap Lines(ecm_code_index[name].line_range) # {}

\* the indexed methods of the file of a file change that a hunk intersects
MethodsOf(file_change) ==
    { name \in DOMAIN ecm_code_index :
        /\ JoinWorkspace(file_change.file_path)
              = ecm_code_index[name].file_path
        /\ HunkIntersects(file_change, name) }

DuplicateFree(s) == \A i, j \in DOMAIN s : s[i] = s[j] => i = j

Readable(file_change) ==
    ecm_files[JoinWorkspace(file_change.file_path)] = "ok"

(* C21 as stated: the changed methods handed to the tracer are exactly     *)
(* the duplicate-free set of the indexed methods in the file of some       *)
(* FileChange whose line range intersects a hunk range of that FileChange. *)
C21_ExactlyChangedMethods ==
    ecm_pc = "done" =>
        /\ DuplicateFree(ecm_changed_methods)
        /\ Range(ecm_changed_methods)
              = UNION { MethodsOf(c) : c \in Range(ecm_file_changes) }

(* C21 amended: the changed methods are exactly the duplicate-free set of  *)
(* the indexed methods in the file of some FileChange whose file exists in *)
(* the workspace and can be read, and whose line range intersects a hunk   *)
(* range of that FileChange; every other FileChange leaves a warning.      *)
C21_ExactlyReadableChangedMethods ==
    ecm_pc = "done" =>
        /\ DuplicateFree(ecm_changed_methods)
        /\ Range(ecm_changed_methods)
              = UNION { MethodsOf(c) :
                          c \in { d \in Range(ecm_file_changes) : Readable(d) } }
        /\ Len(ecm_warnings)
              = Cardinality({ i \in DOMAIN ecm_file_changes :
                                ~Readable(ecm_file_changes[i]) })

\* both files are changed, a method of each is in a hunk, and the methods
\* of the file that cannot be read are left out
C21_Witness ==
    /\ ecm_pc = "done"
    /\ Len(ecm_file_changes) = 2
    /\ Readable(ecm_file_changes[1])
    /\ ~Readable(ecm_file_changes[2])
    /\ MethodsOf(ecm_file_changes[1]) # {}
    /\ MethodsOf(ecm_file_changes[2]) \ MethodsOf(ecm_file_changes[1]) # {}
    /\ Range(ecm_changed_methods) = MethodsOf(ecm_file_changes[1])
    /\ ecm_warnings # <<>>

====
